---- MODULE Spec2Model ----
(***************************************************************************)
(* Grid geometry, ranking classification and CSV export of the GeoGrid     *)
(* dashboard: the GoogleMap component (src/unnamed/part_000) and the three *)
(* revisions of DetailedGridView kept in                                   *)
(* src/components/detailed-grid-view.tsx.                                  *)
(*                                                                         *)
(* JavaScript numbers are IEEE-754 binary floating point.  The model keeps *)
(* the format (binary significand, round to nearest, ties to even, one     *)
(* rounding per operation, NaN) and shortens the significand from 53 bits  *)
(* to Precision bits; the exponent range is not bounded, as no value of    *)
(* the model comes near the limits of the double format.                   *)
(***************************************************************************)
EXTENDS Integers, Sequences, FiniteSets, TLC

\* ------------------------------------------------------------------------
\* Bounds of the model
\* ------------------------------------------------------------------------
Precision == 12     \* bits of significand of a model number
MaxSize == 4        \* largest grid size drawn from in the geometry inputs
MaxRank == 22       \* largest rank drawn from in the ranking inputs
MaxDraws == 1       \* runs of the grid-marker effect in one behaviour
MaxResults == 21    \* places in the longest answer of the places search
MaxRequests == 2    \* requests the place-photo route answers in one behaviour
MaxRenders == 2     \* renders from outside the map loading in one behaviour
MaxRetries == 1     \* clicks on "Retry Loading Map" in one behaviour
MaxDeletes == 3     \* clicks on the Delete button in one behaviour
MaxCalls == 3       \* calls of geogrid-service functions in one behaviour
MaxCompetitors == 3 \* competitors in the longest list of the competitors table

\* ------------------------------------------------------------------------
\* Numbers: [m, e] stands for m * 2^e, canonical (m odd, or m = e = 0).
\* ------------------------------------------------------------------------
Zero == [m |-> 0, e |-> 0]
NaN == [m |-> 0, e |-> 1]

IsNaN(x) == x = NaN

Abs(n) == IF n < 0 THEN 0 - n ELSE n

Min(a, b) == IF a < b THEN a ELSE b

Max(a, b) == IF a < b THEN b ELSE a

RECURSIVE BitLen(_)
BitLen(n) == IF n = 0 THEN 0 ELSE 1 + BitLen(n \div 2)

RECURSIVE Norm(_, _)
Norm(m, e) ==
  IF m = 0 THEN Zero
  ELSE IF m % 2 = 0 THEN Norm(m \div 2, e + 1)
  ELSE [m |-> m, e |-> e]

\* a * 2^e for a natural a, rounded to Precision bits, ties to even
RoundNat(a, e) ==
  IF BitLen(a) <= Precision THEN Norm(a, e)
  ELSE LET s == BitLen(a) - Precision
           q == a \div (2 ^ s)
           r == a % (2 ^ s)
           half == 2 ^ (s - 1)
           up == IF r > half \/ (r = half /\ q % 2 = 1) THEN 1 ELSE 0
       IN  Norm(q + up, e + s)

Neg(x) == IF IsNaN(x) THEN NaN ELSE [m |-> 0 - x.m, e |-> x.e]

Signed(neg, x) == IF neg THEN Neg(x) ELSE x

\* (a / d) * 2^e for naturals a, d (d > 0), rounded once
RoundRat(a, d, e) ==
  IF a = 0 THEN Zero
  ELSE LET k == Max(0, Precision + 2 + BitLen(d) - BitLen(a))
           n == a * (2 ^ k)
           q == n \div d
           sticky == IF n % d = 0 THEN 0 ELSE 1
       IN  RoundNat(2 * q + sticky, e - k - 1)

FromInt(n) == Signed(n < 0, RoundNat(Abs(n), 0))

FromRat(num, den) == Signed(num < 0, RoundRat(Abs(num), den, 0))

Top(x) == BitLen(Abs(x.m)) + x.e

fmul(x, y) ==
  IF IsNaN(x) \/ IsNaN(y) THEN NaN
  ELSE Signed((x.m < 0) # (y.m < 0), RoundNat(Abs(x.m) * Abs(y.m), x.e + y.e))

fdiv(x, y) ==
  IF IsNaN(x) \/ IsNaN(y) \/ y.m = 0 THEN NaN
  ELSE Signed((x.m < 0) # (y.m < 0), RoundRat(Abs(x.m), Abs(y.m), x.e - y.e))

fadd(x, y) ==
  IF IsNaN(x) \/ IsNaN(y) THEN NaN
  ELSE IF x.m = 0 THEN y
  ELSE IF y.m = 0 THEN x
  ELSE IF Top(x) - Top(y) >= Precision + 2 THEN x
  ELSE IF Top(y) - Top(x) >= Precision + 2 THEN y
  ELSE LET e == Min(x.e, y.e)
           s == x.m * (2 ^ (x.e - e)) + y.m * (2 ^ (y.e - e))
       IN  Signed(s < 0, RoundNat(Abs(s), e))

fsub(x, y) == fadd(x, Neg(y))

\* x < y; the rounded difference of two numbers has the sign of the exact one
flt(x, y) == ~IsNaN(x) /\ ~IsNaN(y) /\ fsub(x, y).m < 0

fabs(x) == IF IsNaN(x) THEN NaN ELSE [m |-> Abs(x.m), e |-> x.e]

One == FromInt(1)

\* ------------------------------------------------------------------------
\* JavaScript values: a stored field is a number, a string, null or
\* undefined.  Rank-matrix entries are integers (exact in binary floating
\* point), null, or undefined when the index is out of range.
\* ------------------------------------------------------------------------
JNum(f) == [t |-> "number", n |-> f, s |-> ""]

JStr(str) == [t |-> "string", n |-> Zero, s |-> str]

Undefined == [t |-> "undefined", n |-> Zero, s |-> ""]

RNum(k) == [t |-> "number", v |-> k]

RNull == [t |-> "null", v |-> 0]

RUndef == [t |-> "undefined", v |-> 0]

\* the decimal integer strings the model reads back as numbers
NumericRange == 0..99

\* Number(v)
ToNumber(v) ==
  IF v.t = "number" THEN v.n
  ELSE IF v.t = "string"
       THEN IF v.s = "" THEN Zero
            ELSE IF \E k \in NumericRange : ToString(k) = v.s
                 THEN FromInt(CHOOSE k \in NumericRange : ToString(k) = v.s)
                 ELSE NaN
  ELSE IF v.t = "null" THEN Zero
  ELSE NaN

\* the truthiness that decides a || b
Truthy(v) ==
  IF v.t = "number" THEN ~IsNaN(v.n) /\ v.n # Zero
  ELSE IF v.t = "string" THEN v.s # ""
  ELSE FALSE

\* a || b
OrElse(a, b) == IF Truthy(a) THEN a ELSE b

\* the number of passes of  for (let i = 0; i < bound; i++)
LoopCount(bound) ==
  IF IsNaN(bound) \/ bound.m <= 0 THEN 0
  ELSE IF bound.e >= 0 THEN bound.m * (2 ^ bound.e)
  ELSE (bound.m \div (2 ^ (0 - bound.e))) + 1

\* ToNumber of a rank entry in a comparison or a subtraction
RankNum(entry) == IF entry.t = "number" THEN entry.v ELSE 0

\* gridData[i][j] with 0-based indices; undefined out of range
Entry(rows, i, j) ==
  IF i + 1 > Len(rows) THEN RUndef
  ELSE IF j + 1 > Len(rows[i + 1]) THEN RUndef
  ELSE rows[i + 1][j + 1]

\* ------------------------------------------------------------------------
\* Program constants
\* ------------------------------------------------------------------------
DefaultGridSize == 13

DefaultDistance == FromRat(5, 2)

KmPerDegLat == FromRat(110574, 1000)

KmPerDegLng == FromRat(11132, 100)

MilesPerDeg == 69

\* Math.PI; 355/113 rounds to the same model number as pi
MathPI == FromRat(355, 113)

\* Math.cos, an implementation-approximated function in ECMAScript: the even
\* Taylor polynomial of degree 8, exact to the model's precision for the
\* latitudes of the model (|x| < 1.2)
MathCos(a) ==
  LET x2 == fmul(a, a)
      t4 == fsub(One, fdiv(x2, FromInt(56)))
      t3 == fsub(One, fmul(fdiv(x2, FromInt(30)), t4))
      t2 == fsub(One, fmul(fdiv(x2, FromInt(12)), t3))
  IN  fsub(One, fmul(fdiv(x2, FromInt(2)), t2))

\* ------------------------------------------------------------------------
\* Ranking classifier of DetailedGridView
\* ------------------------------------------------------------------------
\* getRankingColor with a slip in a threshold: 8 in place of 7
getRankingColorSlip(ranking) ==
  IF ranking <= 3 THEN "#059669"
  ELSE IF ranking <= 8 THEN "#10b981"
  ELSE IF ranking <= 10 THEN "#f59e0b"
  ELSE IF ranking <= 15 THEN "#f97316"
  ELSE "#ef4444"

getRankingColor(ranking) ==
  IF ranking <= 3 THEN "#059669"
  ELSE IF ranking <= 7 THEN "#10b981"
  ELSE IF ranking <= 10 THEN "#f59e0b"
  ELSE IF ranking <= 15 THEN "#f97316"
  ELSE IF ranking >= 16 THEN "#ef4444"
  ELSE "#ef4444"

formatRankingLabel(ranking) ==
  IF ranking >= 20 THEN "20+" ELSE ToString(ranking)

\* url of the rank icon of revisions 1 and 3; ${null} prints "null"
RankIconUrl(entry) ==
  IF RankNum(entry) <= 20
  THEN IF entry.t = "null" THEN "/images/rank-icons/null.png"
       ELSE "/images/rank-icons/" \o ToString(entry.v) \o ".png"
  ELSE "/images/rank-icons/X.png"

\* ------------------------------------------------------------------------
\* DetailedGridView: the values parsed at every render
\* ------------------------------------------------------------------------
ViewGridSize(gr) == OrElse(JNum(ToNumber(gr.gridSize)), JNum(FromInt(DefaultGridSize))).n

ViewDistance(gr) == OrElse(JNum(ToNumber(gr.distanceKm)), JNum(DefaultDistance)).n

ViewGridData(gr) == IF gr.gridData.isArray THEN gr.gridData.rows ELSE <<>>

ViewLocation(gr) ==
  [lat |-> OrElse(JNum(ToNumber(gr.lat)), JNum(Zero)).n,
   lng |-> OrElse(JNum(ToNumber(gr.lng)), JNum(Zero)).n]

latKmRatio == fdiv(One, KmPerDegLat)

lngKmRatio(location) ==
  fdiv(One, fmul(KmPerDegLng, MathCos(fdiv(fmul(location.lat, MathPI), FromInt(180)))))

\* GridStart with a slip: the span taken as gridSize spacings
GridStartFullSpan(c, distance, ratio, gridSize) ==
  fsub(c, fdiv(fmul(fmul(distance, ratio), gridSize), FromInt(2)))

\* startLat / startLng: the corner the grid is laid out from
GridStart(c, distance, ratio, gridSize) ==
  fsub(c, fdiv(fmul(fmul(distance, ratio), fsub(gridSize, One)), FromInt(2)))

\* startLat + i * distance * latKmRatio
CellCoord(start, i, distance, ratio) ==
  fadd(start, fmul(fmul(FromInt(i), distance), ratio))

\* i * gridSize + j for an integer-valued gridSize
IntValue(f) == IF f.e >= 0 THEN f.m * (2 ^ f.e) ELSE f.m \div (2 ^ (0 - f.e))

\* zIndex of a ranking marker in each revision
ViewZIndex(rev, entry, i, j, gridSize) ==
  IF rev = 1 THEN (IF RankNum(entry) <= 20 THEN 21 - RankNum(entry) ELSE 0)
  ELSE IF rev = 2 THEN 100 - RankNum(entry)
  ELSE 100 - (i * IntValue(gridSize) + j)

\* a cell on which the marker loop throws: null.toString()
ViewThrows(rev, entry) == rev \in {2, 3} /\ entry.t = "null"

\* a cell the marker loop does not skip
ViewShown(entry) == entry.t # "undefined" /\ ~(entry.t = "number" /\ entry.v = 0)

ViewMarker(rev, entry, i, j, lat, lng, gridSize) ==
  [row |-> i, col |-> j, lat |-> lat, lng |-> lng, ranking |-> entry,
   zIndex |-> ViewZIndex(rev, entry, i, j, gridSize),
   text |-> IF rev = 2 THEN formatRankingLabel(RankNum(entry)) ELSE "",
   color |-> IF rev = 2 THEN getRankingColor(RankNum(entry)) ELSE "",
   icon |-> IF rev = 2 THEN "circle" ELSE RankIconUrl(entry)]

\* the cells of a size x size grid in the order the loops visit them, each
\* with its entry of the rank matrix
CellsOf(rows, n) ==
  [k \in 1..(n * n) |->
     [i |-> (k - 1) \div n, j |-> (k - 1) % n,
      entry |-> Entry(rows, (k - 1) \div n, (k - 1) % n)]]

\* the cells visited before the first one that throws (thrown: the indices
\* of the cells that throw)
UpToThrow(cells, thrown) ==
      IF thrown = {} THEN cells
      ELSE SubSeq(cells, 1, (CHOOSE k \in thrown : \A k2 \in thrown : k <= k2) - 1)

\* the ranking markers one run of the grid-marker effect adds, up to the
\* cell where it throws, and whether it threw
GridMarkerEffect(rev, gr) ==
  LET gridSize == ViewGridSize(gr)
      distance == ViewDistance(gr)
      gridData == ViewGridData(gr)
      location == ViewLocation(gr)
      lngRatio == lngKmRatio(location)
      startLat == GridStart(location.lat, distance, latKmRatio, gridSize)
      startLng == GridStart(location.lng, distance, lngRatio, gridSize)
      cells == CellsOf(gridData, LoopCount(gridSize))
      visited == UpToThrow(cells, {k \in 1..Len(cells) : ViewThrows(rev, cells[k].entry)})
      shown == SelectSeq(visited, LAMBDA c : ViewShown(c.entry))
  IN  [added |-> [p \in 1..Len(shown) |->
                    ViewMarker(rev, shown[p].entry, shown[p].i, shown[p].j,
                               CellCoord(startLat, shown[p].i, distance, latKmRatio),
                               CellCoord(startLng, shown[p].j, distance, lngRatio),
                               gridSize)],
       threw |-> Len(visited) < Len(cells)]

\* ------------------------------------------------------------------------
\* handleCSVDownload of DetailedGridView
\* ------------------------------------------------------------------------
\* x.toFixed(6), as the count of millionths: the integer n with n / 10^6
\* nearest to x, the larger one on a tie; "NaN" for NaN
ToFixed6(x) ==
  IF IsNaN(x) THEN "NaN"
  ELSE LET a == Abs(x.m) * 15625
           k == (0 - x.e) - 6
           n == IF k <= 0 THEN a * (2 ^ (0 - k))
                ELSE IF k > BitLen(a) + 1 THEN 0
                ELSE (a + 2 ^ (k - 1)) \div (2 ^ k)
       IN  (IF x.m < 0 /\ n # 0 THEN "-" ELSE "") \o ToString(n) \o "e-6"

\* `${ranking}`
RankText(entry) ==
  IF entry.t = "number" THEN ToString(entry.v)
  ELSE IF entry.t = "null" THEN "null"
  ELSE "undefined"

\* CsvLine with a slip: Row and Column written 0-based
CsvLineZeroBased(rowIndex, colIndex, lat, lng, entry) ==
  [row |-> rowIndex, col |-> colIndex,
   lat |-> ToFixed6(lat), lng |-> ToFixed6(lng), ranking |-> RankText(entry)]

\* `${rowIndex + 1},${colIndex + 1},${lat.toFixed(6)},${lng.toFixed(6)},${ranking}`
CsvLine(rowIndex, colIndex, lat, lng, entry) ==
  [row |-> rowIndex + 1, col |-> colIndex + 1,
   lat |-> ToFixed6(lat), lng |-> ToFixed6(lng), ranking |-> RankText(entry)]

\* the size and spacing handleCSVDownload works with
CsvGridSize(rev, gr) ==
  IF rev = 3 THEN ViewGridSize(gr)
  ELSE ToNumber(OrElse(gr.gridSize, JNum(FromInt(DefaultGridSize))))

CsvDistance(rev, gr) ==
  IF rev = 3 THEN ViewDistance(gr)
  ELSE ToNumber(OrElse(gr.distanceKm, JNum(DefaultDistance)))

\* the data rows of the CSV, one per entry of gridData
CsvRows(rev, gr) ==
  LET gridSize == CsvGridSize(rev, gr)
      distance == CsvDistance(rev, gr)
      gridData == ViewGridData(gr)
      location == ViewLocation(gr)
      lngRatio == lngKmRatio(location)
      startLat == GridStart(location.lat, distance, latKmRatio, gridSize)
      startLng == GridStart(location.lng, distance, lngRatio, gridSize)
      line(rowIndex, colIndex) ==
        CsvLine(rowIndex, colIndex,
                CellCoord(startLat, rowIndex, distance, latKmRatio),
                CellCoord(startLng, colIndex, distance, lngRatio),
                gridData[rowIndex + 1][colIndex + 1])
      RECURSIVE upTo(_)
      upTo(r) ==
        IF r = 0 THEN <<>>
        ELSE upTo(r - 1) \o [c \in 1..Len(gridData[r]) |-> line(r - 1, c - 1)]
  IN  upTo(Len(gridData))

\* the outcome of one click on the CSV button: the metrics lines throw when
\* metrics.agr is not a number, except in revision 3, which converts it first
CsvExport(rev, gr) ==
  IF rev # 3 /\ ~gr.metricsOk
  THEN [status |-> IF rev = 1 THEN "alert" ELSE "uncaught", rows |-> <<>>]
  ELSE [status |-> "downloaded", rows |-> CsvRows(rev, gr)]

\* ------------------------------------------------------------------------
\* handleOpenPNG of DetailedGridView
\* ------------------------------------------------------------------------
\* getRankingColor(ranking) for any entry: a comparison with undefined is
\* false, null compares as 0
PngFill(entry) ==
  IF entry.t = "number" /\ entry.v = 0 THEN "#F3F4F6"
  ELSE IF entry.t = "undefined" THEN "#ef4444"
  ELSE getRankingColor(RankNum(entry))

\* the text drawn when ranking > 0, "" when none is drawn
PngText(entry) ==
  IF entry.t = "number" /\ entry.v > 0 THEN formatRankingLabel(entry.v) ELSE ""

\* the outcome of one click on the PNG button.  Revisions 1 and 2 paint one
\* cell per pass of the loops over gridResult.gridSize || 13 and throw on a
\* row gridData does not have; revision 3 takes a picture of the map element
\* and writes the metrics on it
PngExport(rev, gr) ==
  IF rev = 3
  THEN [status |-> IF gr.metricsOk THEN "done" ELSE "alert", cells |-> <<>>]
  ELSE LET rows == ViewGridData(gr)
           cells == CellsOf(rows, LoopCount(CsvGridSize(rev, gr)))
           visited == UpToThrow(cells, {k \in 1..Len(cells) : cells[k].i + 1 > Len(rows)})
       IN  [status |-> IF Len(visited) = Len(cells) THEN "done"
                       ELSE IF rev = 1 THEN "alert" ELSE "uncaught",
            cells |-> [k \in 1..Len(visited) |->
                         [row |-> visited[k].i, col |-> visited[k].j,
                          fill |-> PngFill(visited[k].entry),
                          text |-> PngText(visited[k].entry)]]]

\* ------------------------------------------------------------------------
\* GoogleMap component: initializeMap after the maps API has loaded
\* ------------------------------------------------------------------------
\* iconColor and iconText of the marker classification
iconColor(ranking) ==
  IF ranking <= 3 THEN "#4CAF50"
  ELSE IF ranking <= 7 THEN "#8BC34A"
  ELSE IF ranking <= 10 THEN "#FFC107"
  ELSE IF ranking <= 15 THEN "#FF9800"
  ELSE IF ranking <= 20 THEN "#F44336"
  ELSE "#9E9E9E"

iconText(ranking) ==
  IF ranking <= 20 THEN ToString(ranking) ELSE "20+"

MapZIndex(ranking) == 30 - (IF ranking > 20 THEN 21 ELSE ranking)

\* GridOffset with a slip: half of gridSize - 1
GridOffsetBelowHalf(gridSize) == (gridSize - 1) \div 2

\* Math.floor(gridSize / 2)
GridOffset(gridSize) == gridSize \div 2

\* LatOffset with a slip: the offset is not subtracted from the index
LatOffsetFromCorner(i, offset, pointDistance) ==
  fdiv(fmul(FromInt(i), pointDistance), FromInt(MilesPerDeg))

\* ((i - offset) * pointDistance) / 69
LatOffset(i, offset, pointDistance) ==
  fdiv(fmul(FromInt(i - offset), pointDistance), FromInt(MilesPerDeg))

\* 69 * Math.cos(center.lat * (Math.PI / 180))
MilesPerDegLng(center) ==
  fmul(FromInt(MilesPerDeg), MathCos(fmul(center.lat, fdiv(MathPI, FromInt(180)))))

\* ((j - offset) * pointDistance) / (69 * Math.cos(...))
LngOffset(j, offset, pointDistance, perDeg) ==
  fdiv(fmul(FromInt(j - offset), pointDistance), perDeg)

\* GridPoints with a slip: the row taken from the inner loop index
GridPointsColumnMajor(pr) ==
  LET n == IF pr.gridSize > 0 THEN pr.gridSize ELSE 0
      offset == GridOffset(pr.gridSize)
      perDeg == MilesPerDegLng(pr.center)
  IN  [k \in 1..(n * n) |->
         [lat |-> fadd(pr.center.lat, LatOffset((k - 1) % n, offset, pr.pointDistance)),
          lng |-> fadd(pr.center.lng, LngOffset((k - 1) \div n, offset, pr.pointDistance, perDeg))]]

\* the points generated for a gridSize x gridSize grid, row-major
GridPoints(pr) ==
  LET n == IF pr.gridSize > 0 THEN pr.gridSize ELSE 0
      offset == GridOffset(pr.gridSize)
      perDeg == MilesPerDegLng(pr.center)
  IN  [k \in 1..(n * n) |->
         [lat |-> fadd(pr.center.lat, LatOffset((k - 1) \div n, offset, pr.pointDistance)),
          lng |-> fadd(pr.center.lng, LngOffset((k - 1) % n, offset, pr.pointDistance, perDeg))]]

\* a point whose marker is attempted: the entry is defined and not 0
MapShown(pr, entry) ==
  pr.gridData.present /\ Len(pr.gridData.rows) > 0
  /\ entry.t # "undefined" /\ ~(entry.t = "number" /\ entry.v = 0)

\* a point on which the classification throws: null.toString()
MapThrows(pr, entry) == MapShown(pr, entry) /\ entry.t = "null"

\* the markers initializeMap creates, the points it hands to
\* onGridPointsGenerated, and whether it ended in the catch block
InitializeMapRun(pr) ==
  LET points == GridPoints(pr)
      n == IF pr.gridSize > 0 THEN pr.gridSize ELSE 0
      cells == CellsOf(pr.gridData.rows, n)
      visited == UpToThrow(cells, {k \in 1..Len(cells) : MapThrows(pr, cells[k].entry)})
      shown == SelectSeq(visited, LAMBDA c : MapShown(pr, c.entry))
  IN  [added |-> [p \in 1..Len(shown) |->
                    [row |-> shown[p].i, col |-> shown[p].j,
                     lat |-> points[shown[p].i * n + shown[p].j + 1].lat,
                     lng |-> points[shown[p].i * n + shown[p].j + 1].lng,
                     ranking |-> shown[p].entry,
                     zIndex |-> MapZIndex(RankNum(shown[p].entry)),
                     text |-> iconText(RankNum(shown[p].entry)),
                     color |-> iconColor(RankNum(shown[p].entry)),
                     icon |-> "svg"]],
       generated |-> IF Len(visited) = Len(cells) THEN points ELSE <<>>,
       threw |-> Len(visited) < Len(cells)]

\* ------------------------------------------------------------------------
\* showCompetitorsForGridPoint of DetailedGridView (revisions 1 and 3)
\* ------------------------------------------------------------------------
\* the largest s with s * s <= n
RECURSIVE ISqrt(_)
ISqrt(n) ==
  IF n < 2 THEN n
  ELSE LET s == 2 * ISqrt(n \div 4)
       IN  IF (s + 1) * (s + 1) <= n THEN s + 1 ELSE s

\* Math.sqrt, correctly rounded
MathSqrt(x) ==
  IF IsNaN(x) \/ x.m < 0 THEN NaN
  ELSE IF x.m = 0 THEN Zero
  ELSE LET k0 == Max(0, 2 * Precision + 2 - BitLen(x.m))
           k == k0 + ((x.e - k0) % 2)
           n == x.m * (2 ^ k)
           q == ISqrt(n)
           sticky == IF q * q = n THEN 0 ELSE 1
       IN  RoundNat(2 * q + sticky, ((x.e - k) \div 2) - 1)

\* Math.sin, implementation-approximated: the odd Taylor polynomial of degree
\* 7, exact to the model's precision for the angles of the model (|x| < 0.5)
MathSin(x) ==
  LET x2 == fmul(x, x)
      t3 == fsub(One, fdiv(x2, FromInt(42)))
      t2 == fsub(One, fmul(fdiv(x2, FromInt(20)), t3))
      t1 == fsub(One, fmul(fdiv(x2, FromInt(6)), t2))
  IN  fmul(x, t1)

\* atan, the odd Taylor polynomial of degree 7 (|z| < 0.25 in the model)
MathAtan(z) ==
  LET z2 == fmul(z, z)
      t3 == fsub(fdiv(One, FromInt(5)), fdiv(z2, FromInt(7)))
      t2 == fsub(fdiv(One, FromInt(3)), fmul(z2, t3))
  IN  fmul(z, fsub(One, fmul(z2, t2)))

\* Math.atan2(y, x) for y >= 0 and x > 0, implementation-approximated
MathAtan2(y, x) ==
  IF IsNaN(y) \/ IsNaN(x) THEN NaN
  ELSE IF y = Zero THEN Zero
  ELSE IF ~flt(x, y) THEN MathAtan(fdiv(y, x))
  ELSE fsub(fdiv(MathPI, FromInt(2)), MathAtan(fdiv(x, y)))

\* R, the radius of the earth in km
EarthRadiusKm == 6371

\* HaversineKm with a slip: the cosine of the grid point's latitude twice
HaversineKmOneLatitude(gridPoint, comp) ==
  LET dLat == fdiv(fmul(fsub(comp.lat, gridPoint.lat), MathPI), FromInt(180))
      dLon == fdiv(fmul(fsub(comp.lng, gridPoint.lng), MathPI), FromInt(180))
      sinLat == MathSin(fdiv(dLat, FromInt(2)))
      sinLon == MathSin(fdiv(dLon, FromInt(2)))
      cosPoint == MathCos(fdiv(fmul(gridPoint.lat, MathPI), FromInt(180)))
      a == fadd(fmul(sinLat, sinLat),
                fmul(fmul(fmul(cosPoint, cosPoint), sinLon), sinLon))
      c == fmul(FromInt(2), MathAtan2(MathSqrt(a), MathSqrt(fsub(One, a))))
  IN  fmul(FromInt(EarthRadiusKm), c)

\* the distance in km the handlers compute inline between the clicked grid
\* point (or the business) and a place
HaversineKm(gridPoint, comp) ==
  LET dLat == fdiv(fmul(fsub(comp.lat, gridPoint.lat), MathPI), FromInt(180))
      dLon == fdiv(fmul(fsub(comp.lng, gridPoint.lng), MathPI), FromInt(180))
      sinLat == MathSin(fdiv(dLat, FromInt(2)))
      sinLon == MathSin(fdiv(dLon, FromInt(2)))
      cosPoint == MathCos(fdiv(fmul(gridPoint.lat, MathPI), FromInt(180)))
      cosComp == MathCos(fdiv(fmul(comp.lat, MathPI), FromInt(180)))
      a == fadd(fmul(sinLat, sinLat),
                fmul(fmul(fmul(cosPoint, cosComp), sinLon), sinLon))
      c == fmul(FromInt(2), MathAtan2(MathSqrt(a), MathSqrt(fsub(One, a))))
  IN  fmul(FromInt(EarthRadiusKm), c)

\* place.geometry?.location?.lat || 0
PlaceLocation(place) ==
  [lat |-> OrElse(place.lat, JNum(Zero)).n, lng |-> OrElse(place.lng, JNum(Zero)).n]

\* competitorResults.map(...): one competitor per place, ranked by its
\* position in the response
MapResults(gridPoint, places) ==
  [k \in 1..Len(places) |->
     [location |-> PlaceLocation(places[k]),
      distance |-> HaversineKm(gridPoint, PlaceLocation(places[k])),
      ranking |-> k]]

\* one step of the sort: x goes before the competitors that compare higher,
\* and after those that compare equal (the sort is stable)
RECURSIVE InsertSorted(_, _, _)
InsertSorted(sorted, x, byDistance) ==
  IF sorted = <<>> THEN <<x>>
  ELSE LET last == sorted[Len(sorted)]
           before == IF byDistance THEN flt(x.distance, last.distance)
                     ELSE x.ranking < last.ranking
       IN  IF before
           THEN Append(InsertSorted(SubSeq(sorted, 1, Len(sorted) - 1), x, byDistance), last)
           ELSE Append(sorted, x)

\* Array.prototype.sort with the comparator a.distance - b.distance (or
\* a.ranking - b.ranking); the sorted prefix is computed once per step
RECURSIVE SortResults(_, _)
SortResults(results, byDistance) ==
  IF results = <<>> THEN <<>>
  ELSE CHOOSE out \in {InsertSorted(sorted, results[Len(results)], byDistance) :
                         sorted \in {SortResults(SubSeq(results, 1, Len(results) - 1),
                                                 byDistance)}} : TRUE

\* results.slice(0, 20)
TopCount == 20

\* what a click on a ranking marker ends with once the search has answered:
\* the businesses listed in the modal and the value given to setCompetitors
ShowCompetitorsRun(rev, gridPoint, results) ==
  LET byDistance == SortResults(results, TRUE)
      byRanking == SortResults(results, FALSE)
  IN  IF rev = 1
      THEN [status |-> "shown", point |-> gridPoint,
            list |-> SubSeq(byDistance, 1, Min(TopCount, Len(results))),
            stored |-> <<>>]
      ELSE [status |-> "shown", point |-> gridPoint, list |-> results,
            stored |-> SubSeq(byRanking, 1, Min(TopCount, Len(results)))]

\* ------------------------------------------------------------------------
\* GridVisualization
\* ------------------------------------------------------------------------
\* CenterIndex with a slip: the half rounded up
CenterIndexRoundedUp(configSize) == (configSize * configSize + 1) \div 2

\* Math.floor(config.size * config.size / 2)
CenterIndex(configSize) == (configSize * configSize) \div 2

\* the titles of the markers rendered for the points of the context
VisualTitles(configSize, count) ==
  [k \in 1..count |->
     IF k - 1 = CenterIndex(configSize) THEN "Center Point"
     ELSE "Grid Point " \o ToString(k - 1)]

\* ------------------------------------------------------------------------
\* GET /api/place-photo (src/app/api/place-photo/route.ts)
\* ------------------------------------------------------------------------
\* null, as searchParams.get answers for a parameter the URL does not have
Null == [t |-> "null", n |-> Zero, s |-> ""]

NoUrl == [photoreference |-> "", maxwidth |-> "", maxheight |-> "", sent |-> FALSE]

NoUpstream == [kind |-> "none", ok |-> FALSE, contentType |-> Null, body |-> "none"]

NoResponse == [status |-> 0, kind |-> "none", detail |-> ""]

NoRequest == [reference |-> Null, maxwidth |-> Null, maxheight |-> Null, url |-> NoUrl]

\* NextResponse.json({ error }, { status })
JsonError(status, message) == [status |-> status, kind |-> "json", detail |-> message]

\* NextResponse.redirect(url): a 307 to url
Redirect(url) == [status |-> 307, kind |-> "redirect", detail |-> url]

\* new NextResponse(imageData, { headers }): a 200 with the content type
Image(contentType) == [status |-> 200, kind |-> "image", detail |-> contentType]

\* the URL of Google's Places Photos API the route builds
PhotoUrl(req) ==
  [photoreference |-> req.reference.s,
   maxwidth |-> OrElse(req.maxwidth, JStr("400")).s,
   maxheight |-> OrElse(req.maxheight, JStr("400")).s,
   sent |-> TRUE]

\* PhotoBegin with a slip: the API key is checked before the reference
PhotoBeginKeyFirst(key, req) ==
  IF ~Truthy(key)
  THEN [fetch |-> FALSE, url |-> NoUrl, response |-> JsonError(500, "Missing API key")]
  ELSE IF ~Truthy(req.reference)
  THEN [fetch |-> FALSE, url |-> NoUrl, response |-> JsonError(400, "Missing photo reference")]
  ELSE [fetch |-> TRUE, url |-> PhotoUrl(req), response |-> NoResponse]

\* GET up to  await fetch(googleUrl): the response it returns at once, or the
\* URL it fetches
PhotoBegin(key, req) ==
  IF ~Truthy(req.reference)
  THEN [fetch |-> FALSE, url |-> NoUrl, response |-> JsonError(400, "Missing photo reference")]
  ELSE IF ~Truthy(key)
  THEN [fetch |-> FALSE, url |-> NoUrl, response |-> JsonError(500, "Missing API key")]
  ELSE [fetch |-> TRUE, url |-> PhotoUrl(req), response |-> NoResponse]

\* GET from the settled fetch on: up is what the fetch and the reading of the
\* body ended with
PhotoFinish(up) ==
  IF up.kind = "rejected" THEN JsonError(500, "Failed to fetch photo")
  ELSE IF ~up.ok THEN Redirect("https://via.placeholder.com/150?text=No+Image")
  ELSE IF up.body = "fails" THEN JsonError(500, "Failed to fetch photo")
  ELSE Image(OrElse(up.contentType, JStr("image/jpeg")).s)

\* ------------------------------------------------------------------------
\* Loading the map: the map-init effect of DetailedGridView and the init
\* effect of GoogleMap
\* ------------------------------------------------------------------------
\* the cleanup of an effect: isMounted = false (and clearTimeout)
Unmount(runs) == [k \in 1..Len(runs) |-> [runs[k] EXCEPT !.isMounted = FALSE]]

\* the calls that still await the loader, without call k, which has settled
Settled(runs, k) == SubSeq(runs, 1, k - 1) \o SubSeq(runs, k + 1, Len(runs))

NoUpdates == [error |-> "", loaded |-> FALSE, calls |-> <<>>]

\* initMap from "Set a timeout to prevent infinite loading" to the end of
\* finally: the timeout is set, the map is constructed or an error is
\* thrown and caught, and the timeout is cleared, without an await in
\* between; constructs is whether new google.maps.Map returns
InitMapBody(mounted, google, constructs) ==
  IF google /\ constructs
  THEN IF mounted THEN [error |-> "", loaded |-> TRUE, calls |-> <<"setMapLoaded">>]
       ELSE NoUpdates
  ELSE IF mounted
       THEN [error |-> "Failed to initialize map", loaded |-> TRUE,
             calls |-> <<"setMapError", "setMapLoaded">>]
       ELSE NoUpdates

\* initMap from the settled  await loadGoogleMaps()  on
InitMapAfterLoad(mounted, settled, google, constructs) ==
  IF settled = "rejected"
  THEN IF mounted
       THEN [error |-> "Failed to load Google Maps API", loaded |-> TRUE,
             calls |-> <<"setMapError", "setMapLoaded">>]
       ELSE NoUpdates
  ELSE IF ~mounted THEN NoUpdates
  ELSE InitMapBody(mounted, google, constructs)

\* GoogleMap renders the container with the ref only when there is no error
\* and it is not loading
RendersContainer(loading, err) == err = "" /\ ~loading

NoMapUpdates == [api |-> FALSE, error |-> "", ended |-> FALSE, calls |-> <<>>]

\* initializeMap of GoogleMap from the settled  await loadGoogleMapsApi()
\* on: setGoogleMapsApi, then the isMounted and mapRef test, then the map
\* and setIsLoading(false), or the catch
InitializeMapAfterLoad(mounted, settled, container, succeeds) ==
  IF settled = "rejected"
  THEN IF mounted
       THEN [api |-> FALSE, error |-> "Failed to initialize map", ended |-> TRUE,
             calls |-> <<"setError", "setIsLoading">>]
       ELSE NoMapUpdates
  ELSE IF ~mounted \/ ~container
  THEN [api |-> TRUE, error |-> "", ended |-> FALSE, calls |-> <<"setGoogleMapsApi">>]
  ELSE IF succeeds
  THEN [api |-> TRUE, error |-> "", ended |-> TRUE,
        calls |-> <<"setGoogleMapsApi", "setIsLoading">>]
  ELSE [api |-> TRUE, error |-> "Failed to initialize map", ended |-> TRUE,
        calls |-> <<"setGoogleMapsApi", "setError", "setIsLoading">>]

\* ------------------------------------------------------------------------
\* Deleting a grid result from the detailed view
\* ------------------------------------------------------------------------
\* handleDelete up to  await deleteGridResult(gridResult.id): the
\* confirmation, and when it is given setIsDeleting(true) and the call
HandleDeleteBegin(confirmed) ==
  IF confirmed
  THEN [deleting |-> TRUE, awaits |-> TRUE, calls |-> <<"confirm", "deleteGridResult">>]
  ELSE [deleting |-> FALSE, awaits |-> FALSE, calls |-> <<"confirm">>]

\* HandleDeleteEnd with a slip: the callbacks run whatever the call resolved to
HandleDeleteEndAnyway(outcome) ==
  IF outcome = "throws"
  THEN [deleting |-> FALSE, calls |-> <<"alert">>]
  ELSE [deleting |-> FALSE, calls |-> <<"onDelete", "onClose">>]

\* handleDelete from the settled call on: outcome is what deleteGridResult
\* resolved to, or that it threw; finally runs setIsDeleting(false)
HandleDeleteEnd(outcome) ==
  IF outcome = "true"
  THEN [deleting |-> FALSE, calls |-> <<"onDelete", "onClose">>]
  ELSE [deleting |-> FALSE, calls |-> <<"alert">>]

\* ------------------------------------------------------------------------
\* geogrid-service over the data store
\* ------------------------------------------------------------------------
\* what the functions return or throw
Returns(v) == [outcome |-> "returns", value |-> v]

Throws == [outcome |-> "throws", value |-> [t |-> "error"]]

NullValue == [t |-> "null"]

BoolValue(b) == [t |-> "boolean", b |-> b]

ListValue(rows) == [t |-> "list", rows |-> rows]

\* id.toString()
IdToString(id) == [t |-> "string", digits |-> id]

\* the id the store gives the next row of a table
NextId(rows) ==
  IF rows = <<>> THEN 1
  ELSE 1 + (CHOOSE m \in {rows[k].id : k \in 1..Len(rows)} :
              \A k \in 1..Len(rows) : rows[k].id <= m)

\* the rows of a table that have value v in column col
RowsWhere(rows, col, v) == SelectSeq(rows, LAMBDA r : r[col] = v)

\* what a statement sent to the store ends with: it answers with data, it
\* answers with an error, it answers without data and without error (as a
\* delete or an insert without select does), or the call throws or rejects.
\* A statement that answered with an error or threw has changed no table,
\* and neither has an insert with select that answered without a row
StoreOutcomes == {"data", "error", "nodata", "throws"}

\* saveGridResult: the insert into businesses, then the insert into
\* grid_results; first and second are what the two inserts end with
saveGridResult(businesses, gridResults, result, first, second) ==
  IF first # "data"
  THEN [businesses |-> businesses, gridResults |-> gridResults, store |-> <<first>>] @@ Throws
  ELSE LET businessId == NextId(businesses)
           inserted == Append(businesses, [id |-> businessId, name |-> result.name])
       IN  IF second # "data"
           THEN [businesses |-> inserted, gridResults |-> gridResults,
                 store |-> <<first, second>>] @@ Throws
           ELSE LET gridId == NextId(gridResults)
                IN  [businesses |-> inserted,
                     gridResults |-> Append(gridResults,
                                            [id |-> gridId, business_id |-> businessId,
                                             search_term |-> result.searchTerm]),
                     store |-> <<first, second>>]
                    @@ Returns([t |-> "result", id |-> IdToString(gridId),
                                name |-> result.name, searchTerm |-> result.searchTerm])

\* a row of grid_results with its businesses row, as GridResult
ToGridResult(row, businesses) ==
  [t |-> "result", id |-> IdToString(row.id),
   name |-> RowsWhere(businesses, "id", row.business_id)[1].name,
   searchTerm |-> row.search_term]

\* getGridResults: the select ends with out
getGridResults(businesses, gridResults, out) ==
  IF out \in {"error", "throws"} THEN Throws
  ELSE IF out = "nodata" \/ gridResults = <<>> THEN Returns(ListValue(<<>>))
  ELSE Returns(ListValue([k \in 1..Len(gridResults) |-> ToGridResult(gridResults[k], businesses)]))

\* getGridResultById: .single() answers with an error when no row has the id
getGridResultById(businesses, gridResults, id, out) ==
  IF out \in {"error", "throws", "nodata"} THEN Returns(NullValue)
  ELSE IF RowsWhere(gridResults, "id", id) = <<>> THEN Returns(NullValue)
  ELSE Returns(ToGridResult(RowsWhere(gridResults, "id", id)[1], businesses))

\* deleteGridResult with a slip: an exception of the store is thrown on
deleteGridResultRethrows(gridResults, id, out) ==
  IF out = "throws" THEN [gridResults |-> gridResults] @@ Throws
  ELSE IF out = "error" THEN [gridResults |-> gridResults] @@ Returns(BoolValue(FALSE))
  ELSE [gridResults |-> SelectSeq(gridResults, LAMBDA r : r.id # id)] @@ Returns(BoolValue(TRUE))

\* deleteGridResult: the delete ends with out; a delete answers without data
deleteGridResult(gridResults, id, out) ==
  IF out \in {"error", "throws"}
  THEN [gridResults |-> gridResults] @@ Returns(BoolValue(FALSE))
  ELSE [gridResults |-> SelectSeq(gridResults, LAMBDA r : r.id # id)] @@ Returns(BoolValue(TRUE))

\* saveCompetitors: competitor.location.lat throws for a competitor without
\* location, before the store is called
saveCompetitors(rows, gridResultId, list, out) ==
  IF \E k \in 1..Len(list) : ~list[k].hasLocation
  THEN [competitors |-> rows, store |-> <<>>] @@ Returns(BoolValue(FALSE))
  ELSE IF out \in {"error", "throws"}
  THEN [competitors |-> rows, store |-> <<out>>] @@ Returns(BoolValue(FALSE))
  ELSE [competitors |-> rows \o [k \in 1..Len(list) |->
                                  [id |-> NextId(rows) + k - 1, grid_result_id |-> gridResultId,
                                   name |-> list[k].name]],
        store |-> <<out>>] @@ Returns(BoolValue(TRUE))

\* getCompetitors
getCompetitors(rows, gridResultId, out) ==
  IF out \in {"error", "throws", "nodata"} THEN Returns(ListValue(<<>>))
  ELSE LET found == RowsWhere(rows, "grid_result_id", gridResultId)
       IN  Returns(ListValue([k \in 1..Len(found) |->
                               [id |-> IdToString(found[k].id), name |-> found[k].name]]))

\* ------------------------------------------------------------------------
\* The places-search handlers
\* ------------------------------------------------------------------------
\* a string in a body whose numbers are integers
RStr(k) == [t |-> "string", v |-> k]

\* a location of a request body: absent, null, a string, or an object with
\* some of the properties lat and lng
NoLocation == [t |-> "undefined", has |-> {}, lat |-> 0, lng |-> 0]

NullLocation == [t |-> "null", has |-> {}, lat |-> 0, lng |-> 0]

TextLocation == [t |-> "string", has |-> {}, lat |-> 0, lng |-> 0]

LatLng(has, lat, lng) == [t |-> "object", has |-> has, lat |-> lat, lng |-> lng]

\* a parameter that is not sent
NoParam == [t |-> "absent", v |-> 0]

NoParams ==
  [query |-> NoParam, pagetoken |-> NoParam, location |-> NoParam, radius |-> NoParam,
   rankby |-> NoParam, type |-> NoParam, keyword |-> NoParam]

\* radius > n, where undefined compares as NaN, null as 0 and a string by
\* the number it spells
RadiusAbove(radius, n) == radius.t \in {"number", "string"} /\ radius.v > n

\* the truthiness of a location
HasLocation(location) == location.t \in {"object", "string"}

\* location.lat && location.lng
LatAndLng(location) ==
  /\ location.t = "object"
  /\ {"lat", "lng"} \subseteq location.has
  /\ location.lat # 0
  /\ location.lng # 0

isNationwideSearch(req) ==
  Truthy(req.query) /\ (~HasLocation(req.location) \/ RadiusAbove(req.radius, 50000))

\* the parameters of the text search
TextSearchParams(req) ==
  [NoParams EXCEPT
     !.query = req.query,
     !.pagetoken = IF Truthy(req.pageToken) THEN req.pageToken ELSE NoParam,
     !.location = IF LatAndLng(req.location) THEN req.location ELSE NoParam,
     !.radius = IF LatAndLng(req.location) THEN RNum(50000) ELSE NoParam]

\* the location test of the nearby search
InvalidLocation(location) ==
  ~HasLocation(location) \/ location.t # "object" \/ ~({"lat", "lng"} \subseteq location.has)

\* validRadius with a slip: no upper limit
validRadiusUnlimited(radius) ==
  IF radius.t = "number" /\ radius.v > 0 THEN radius.v ELSE 5000

validRadius(radius) ==
  IF radius.t = "number" /\ radius.v > 0 /\ radius.v <= 50000 THEN radius.v ELSE 5000

\* the parameters of the nearby search
NearbyParams(req) ==
  LET base == [NoParams EXCEPT !.location = req.location,
                               !.type = OrElse(req.type, JStr("establishment"))]
  IN  IF Truthy(req.pageToken) THEN [base EXCEPT !.pagetoken = req.pageToken]
      ELSE LET ranked ==
                 IF req.rankBy = JStr("distance")
                 THEN [base EXCEPT !.rankby = JStr("distance")]
                 ELSE [base EXCEPT !.radius = RNum(validRadius(req.radius))]
           IN  IF Truthy(req.query) THEN [ranked EXCEPT !.keyword = req.query] ELSE ranked

\* the parameters of the nearby search of the earlier variant
EarlierParams(req) ==
  [NoParams EXCEPT !.location = req.location,
                   !.radius = RNum(validRadius(req.radius)),
                   !.keyword = req.query,
                   !.type = JStr("establishment")]

SearchError(status, message) == [status |-> status, error |-> message, results |-> <<>>]

SearchResults(results) == [status |-> 200, error |-> "", results |-> results]

\* results.map(place => ...): the fields the handler hands on
MapPlaces(results) ==
  [k \in 1..Len(results) |-> [name |-> results[k].name, place_id |-> results[k].place_id]]

\* StatusResponse with a slip: the query limit is answered like any other error
StatusResponseNoLimit(status) ==
  CASE status = "ZERO_RESULTS" -> SearchResults(<<>>)
    [] status = "REQUEST_DENIED" ->
         SearchError(403, "API request was denied. Please check API key configuration.")
    [] status = "INVALID_REQUEST" -> SearchError(400, "Invalid request parameters.")
    [] OTHER -> SearchError(500, "Google Places API error")

\* the switch over a status that is not OK
StatusResponse(status) ==
  CASE status = "ZERO_RESULTS" -> SearchResults(<<>>)
    [] status = "OVER_QUERY_LIMIT" ->
         SearchError(429, "API query limit exceeded. Please try again later.")
    [] status = "REQUEST_DENIED" ->
         SearchError(403, "API request was denied. Please check API key configuration.")
    [] status = "INVALID_REQUEST" -> SearchError(400, "Invalid request parameters.")
    [] status = "UNKNOWN_ERROR" ->
         SearchError(500, "Google Places API encountered an unknown error. Please try again.")
    [] OTHER -> SearchError(500, "Google Places API error")

NoCall == <<>>

\* POST of the places-search route; up is what the upstream call ends with
PlacesSearch(key, req, up) ==
  IF ~Truthy(key)
  THEN [calls |-> NoCall, response |-> SearchError(500, "API configuration error")]
  ELSE IF isNationwideSearch(req)
  THEN [calls |-> <<[api |-> "textSearch", params |-> TextSearchParams(req)]>>,
        response |->
          IF up.kind = "throws" THEN SearchError(500, "Failed to connect to Google Places API")
          ELSE IF up.status # "OK" /\ up.status # "ZERO_RESULTS" THEN StatusResponse(up.status)
          ELSE SearchResults(MapPlaces(up.results))]
  ELSE IF InvalidLocation(req.location)
  THEN [calls |-> NoCall,
        response |-> SearchError(400, "Invalid location format. Must provide {lat, lng} object")]
  ELSE [calls |-> <<[api |-> "placesNearby", params |-> NearbyParams(req)]>>,
        response |->
          IF up.kind = "throws" THEN SearchError(500, "Failed to connect to Google Places API")
          ELSE IF up.status # "OK" THEN StatusResponse(up.status)
          ELSE SearchResults(MapPlaces(up.results))]

\* POST of the earlier variant of the route
PlacesSearchEarlier(key, req, up) ==
  IF ~Truthy(key)
  THEN [calls |-> NoCall, response |-> SearchError(500, "API configuration error")]
  ELSE IF InvalidLocation(req.location)
  THEN [calls |-> NoCall,
        response |-> SearchError(400, "Invalid location format. Must provide {lat, lng} object")]
  ELSE [calls |-> <<[api |-> "placesNearby", params |-> EarlierParams(req)]>>,
        response |->
          IF up.kind = "throws" THEN SearchError(500, "Failed to connect to Google Places API")
          ELSE IF up.status # "OK" THEN StatusResponse(up.status)
          ELSE SearchResults(MapPlaces(up.results))]

\* ------------------------------------------------------------------------
\* The competitors table: strings are sequences of character codes
\* ------------------------------------------------------------------------
\* toLowerCase of a string of ASCII letters
toLowerCase(str) == [k \in 1..Len(str) |-> IF str[k] >= 65 /\ str[k] <= 90 THEN str[k] + 32 ELSE str[k]]

\* str.includes(part)
includes(str, part) ==
  \E k \in 1..(Len(str) - Len(part) + 1) : SubSeq(str, k, k + Len(part) - 1) = part

\* a < b for strings: by the code units at the first difference, a proper
\* prefix being less
StringLess(a, b) ==
  \E k \in 1..(Len(b)) :
    /\ k <= Len(a) + 1
    /\ SubSeq(a, 1, k - 1) = SubSeq(b, 1, k - 1)
    /\ (k = Len(a) + 1 \/ a[k] < b[k])

\* aVal and bVal of the comparison: the rating is  rating ?? 0
SortValue(c, key) ==
  IF key = "rating" THEN (IF c.rating.t = "number" THEN c.rating.v ELSE 0)
  ELSE c[key]

\* aVal < bVal
SortLess(a, b, key) ==
  IF key = "name" THEN StringLess(a.name, b.name)
  ELSE SortValue(a, key) < SortValue(b, key)

\* the comparison function handed to sort
CompareCompetitors(a, b, key, order) ==
  IF SortLess(a, b, key) THEN (IF order = "asc" THEN 0 - 1 ELSE 1)
  ELSE IF SortLess(b, a, key) THEN (IF order = "asc" THEN 1 ELSE 0 - 1)
  ELSE 0

\* Array.prototype.sort, which is stable: c goes behind the last row that
\* does not have to come after it
RECURSIVE InsertCompetitor(_, _, _, _)
InsertCompetitor(sorted, c, key, order) ==
  IF sorted = <<>> THEN <<c>>
  ELSE IF CompareCompetitors(sorted[Len(sorted)], c, key, order) <= 0
  THEN Append(sorted, c)
  ELSE Append(InsertCompetitor(SubSeq(sorted, 1, Len(sorted) - 1), c, key, order),
              sorted[Len(sorted)])

RECURSIVE SortCompetitors(_, _, _)
SortCompetitors(rows, key, order) ==
  IF rows = <<>> THEN <<>>
  ELSE CHOOSE out \in {InsertCompetitor(sorted, rows[Len(rows)], key, order) :
                         sorted \in {SortCompetitors(SubSeq(rows, 1, Len(rows) - 1), key, order)}} :
         TRUE

\* competitors.filter(c => c.name.toLowerCase().includes(search.toLowerCase()))
FilterCompetitors(competitors, search) ==
  SelectSeq(competitors, LAMBDA c : includes(toLowerCase(c.name), toLowerCase(search)))

\* FilteredCompetitors with a slip: the state array is sorted before it is filtered
FilteredCompetitorsInPlace(competitors, search, key, order) ==
  [rows |-> FilterCompetitors(SortCompetitors(competitors, key, order), search),
   competitors |-> SortCompetitors(competitors, key, order)]

\* the useMemo of filteredCompetitors: the rows to display, and the array
\* in the competitors state afterwards (sort works on the copy filter made)
FilteredCompetitors(competitors, search, key, order) ==
  [rows |-> SortCompetitors(FilterCompetitors(competitors, search), key, order),
   competitors |-> competitors]

\* the onClick of the header of key
HeaderClick(sortKey, sortOrder, key) ==
  IF sortKey = key
  THEN [key |-> sortKey, order |-> IF sortOrder = "asc" THEN "desc" ELSE "asc"]
  ELSE [key |-> key, order |-> "asc"]

\* ------------------------------------------------------------------------
\* State
\* ------------------------------------------------------------------------
VARIABLES
  revision,     \* the revision of DetailedGridView that is mounted: 1, 2 or 3
  gridResult,   \* the gridResult prop of DetailedGridView
  mapInstances, \* Map objects DetailedGridView has constructed so far
  markers,      \* ranking markers on the map instance DetailedGridView uses
  draws,        \* runs of the grid-marker effect so far
  drawError,    \* the last run of the grid-marker effect threw
  csv,          \* outcome of the last click on the CSV button
  png,          \* outcome of the last click on the PNG button
  competitors,  \* the competitors modal of the last click on a ranking marker
  props,        \* the props of the GoogleMap component
  mapStatus,    \* GoogleMap: "loading", "ready" (isLoading false) or "error"
  mapMarkers,   \* ranking markers on the map of GoogleMap
  points,       \* the points handed to onGridPointsGenerated
  visual        \* GridVisualization: its config, its points and what it rendered

\* the place-photo route
VARIABLES
  photoKey,     \* process.env.NEXT_PUBLIC_GOOGLE_MAPS_API_KEY is set
  photoPending, \* the request whose upstream fetch is in flight, or NoRequest
  photoLog      \* the requests answered so far, each with its fetch and its response

\* the loading of the map in DetailedGridView
VARIABLES
  mapLoaded,    \* the mapLoaded state
  mapError,     \* the mapError state, "" for null
  googleLoaded, \* window.google.maps is defined
  initMaps,     \* the initMap calls awaiting loadGoogleMaps(), each with its isMounted
  effectDue,    \* a render has happened whose map-init effect has not run yet
  renders,      \* renders caused by other state of the view so far
  retries       \* clicks on "Retry Loading Map" so far

\* the loading of the map in GoogleMap
VARIABLES
  isLoading,       \* the isLoading state
  error,           \* the error state, "" for null
  loadAttempts,    \* the loadAttempts state
  googleMapsApi,   \* the googleMapsApi state is set
  mapRefCurrent,   \* mapRef.current is the rendered container
  initializeMaps,  \* the initializeMap calls awaiting the loader, each with its isMounted
  mapEffectDue,    \* a dependency of the init effect has changed since its last run
  propsChanges,    \* renders with new props so far
  lateUpdates      \* state updates made by an initializer after its effect's cleanup

\* deleting from the detailed view
VARIABLES
  isDeleting,    \* the isDeleting state
  deletePending, \* handleDelete awaits deleteGridResult
  deleteLog      \* the clicks on Delete so far, each with what it called

\* the data store behind geogrid-service and the calls of the service
VARIABLES
  businessRows,   \* the rows of the table businesses
  gridResultRows, \* the rows of the table grid_results
  competitorRows, \* the rows of the table competitors
  serviceLog      \* the calls of service functions so far, each with its outcome

\* the places-search handlers
VARIABLES
  searchKey,    \* process.env.NEXT_PUBLIC_GOOGLE_MAPS_API_KEY of the handlers
  searchLog     \* the request answered last, with its upstream call and its response

\* the competitors table of the detailed view
VARIABLES
  competitorList,      \* the competitors state
  competitorSearch,    \* the competitorSearch state
  compSortKey,         \* the compSortKey state
  compSortOrder,       \* the compSortOrder state
  filteredCompetitors, \* the rows the table displays
  tableEvent           \* the last event in the table: a header click or a search edit

viewVars == <<revision, gridResult, mapInstances, markers, draws, drawError, csv, png,
              competitors, props, mapStatus, mapMarkers, points, visual>>

photoVars == <<photoKey, photoPending, photoLog>>

detailedLoadVars == <<mapLoaded, mapError, googleLoaded, initMaps, effectDue, renders, retries>>

mapLoadVars == <<isLoading, error, loadAttempts, googleMapsApi, mapRefCurrent, initializeMaps,
                 mapEffectDue, propsChanges>>

loadVars == <<detailedLoadVars, mapLoadVars, lateUpdates>>

\* what the actions of the view leave alone
deleteVars == <<isDeleting, deletePending, deleteLog>>

storeVars == <<businessRows, gridResultRows, competitorRows, serviceLog>>

searchVars == <<searchKey, searchLog>>

tableVars ==
  <<competitorList, competitorSearch, compSortKey, compSortOrder, filteredCompetitors, tableEvent>>

restVars == <<deleteVars, storeVars, searchVars, tableVars>>

otherVars == <<photoVars, loadVars, restVars>>

vars == <<viewVars, otherVars>>

\* ------------------------------------------------------------------------
\* Inputs: the grid results the view is mounted with
\* ------------------------------------------------------------------------
\* an n x n rank matrix with every entry the rank r
Uniform(n, r) == [i \in 1..n |-> [j \in 1..n |-> RNum(r)]]

\* an n x n rank matrix with ranks 0, 1, 2 along the anti-diagonals
Striped(n) == [i \in 1..n |-> [j \in 1..n |-> RNum((i + j) % 3)]]

GridResultOf(size, dist, lat, lng, data, ok) ==
  [gridSize |-> size, distanceKm |-> dist, lat |-> lat, lng |-> lng,
   gridData |-> data, metricsOk |-> ok]

Matrix(rows) == [isArray |-> TRUE, rows |-> rows]

NoMatrix == [isArray |-> FALSE, rows |-> <<>>]

\* business locations: on the equator, near it, and a few degrees north
Centers ==
  {[lat |-> FromRat(0, 1), lng |-> FromRat(0 - 74, 10)],
   [lat |-> FromRat(1, 2), lng |-> FromRat(3, 4)],
   [lat |-> FromRat(50891, 12500), lng |-> FromRat(278, 100)]}

Dists == {FromRat(25, 2), FromRat(30, 1), FromRat(79, 1)}

\* grids of every size up to MaxSize with a rank in every cell
GeoInputs ==
  {GridResultOf(JNum(FromInt(n)), JNum(d), JNum(c.lat), JNum(c.lng), Matrix(Uniform(n, 1)), TRUE) :
     n \in 1..MaxSize, d \in Dists, c \in Centers}

RankEntries == {RNum(r) : r \in 0..MaxRank} \cup {RNull}

\* the entries next to an entry: the same rank, the ranks one below and one
\* above it, and no rank
Nearby(a) ==
  IF a.t = "number" THEN {b \in RankEntries : b.t = "null" \/ Abs(b.v - a.v) <= 1}
  ELSE RankEntries

\* a grid of size 2 whose first row holds two entries next to each other and
\* whose second row is missing
RankInputs ==
  {GridResultOf(JNum(FromInt(2)), JNum(FromRat(30, 1)), JNum(FromRat(1, 2)), JNum(FromRat(3, 4)),
                Matrix(<< pair >>), TRUE) :
     pair \in UNION {{<<a, b>> : b \in Nearby(a)} : a \in RankEntries}}

StoredSizes ==
  {JNum(FromInt(0)), JNum(FromInt(2)), JNum(FromInt(3)), JStr("3"), JStr("3x3"), Undefined}

StoredMatrices ==
  {NoMatrix, Matrix(<<>>), Matrix(Striped(2)), Matrix(Striped(3)),
   Matrix(<< <<RNum(1), RNum(0)>>, <<RNum(21)>> >>),
   Matrix(<< <<RNum(5), RNull>>, <<RNum(0), RNum(2)>> >>)}

\* stored sizes and matrices that need not agree, as the view's fallbacks
\* allow; a few of them with a distance or metrics that are not numbers
StoredInputs ==
  {GridResultOf(size, JNum(FromRat(30, 1)), JNum(FromRat(1, 2)), JNum(FromRat(3, 4)), data, TRUE) :
     size \in StoredSizes, data \in StoredMatrices}
  \cup
  {GridResultOf(size, dist, JNum(FromRat(1, 2)), JNum(FromRat(3, 4)), Matrix(Striped(3)), ok) :
     size \in {JNum(FromInt(3)), JStr("3")}, dist \in {JNum(FromRat(30, 1)), JNum(NaN)},
     ok \in BOOLEAN}

\* a size or a spacing below zero
NegativeInputs ==
  {GridResultOf(JNum(FromInt(0 - 3)), JNum(FromRat(30, 1)), JNum(FromRat(1, 2)), JNum(FromRat(3, 4)),
                Matrix(Striped(3)), TRUE),
   GridResultOf(JNum(FromInt(3)), JNum(FromRat(0 - 30, 1)), JNum(FromRat(1, 2)), JNum(FromRat(3, 4)),
                Matrix(Striped(3)), TRUE)}

\* the props GoogleMap gets when it shows the same result
PropsFor(gr) ==
  [center |-> ViewLocation(gr),
   gridSize |-> LoopCount(ViewGridSize(gr)),
   pointDistance |-> ViewDistance(gr),
   gridData |-> [present |-> gr.gridData.isArray, rows |-> gr.gridData.rows]]

NoCsv == [status |-> "none", rows |-> <<>>]

NoPng == [status |-> "none", cells |-> <<>>]

NoCompetitors ==
  [status |-> "none", point |-> [lat |-> Zero, lng |-> Zero], list |-> <<>>, stored |-> <<>>]

NoVisual == [size |-> 0, count |-> 0, rendered |-> FALSE, titles |-> <<>>]

\* the state at mount for a revision and a grid result
Mounted(rev, gr) ==
  /\ revision = rev
  /\ gridResult = gr
  /\ props = PropsFor(gr)
  /\ mapInstances = 0
  /\ markers = <<>>
  /\ draws = 0
  /\ drawError = FALSE
  /\ csv = NoCsv
  /\ png = NoPng
  /\ competitors = NoCompetitors
  /\ mapStatus = "loading"
  /\ mapMarkers = <<>>
  /\ points = <<>>

\* the place-photo route has answered nothing
PhotoIdle == photoKey = JStr("key") /\ photoPending = NoRequest /\ photoLog = <<>>

\* DetailedGridView at its mount, before the map-init effect has run
DetailedMounted(google) ==
  /\ mapLoaded = FALSE
  /\ mapError = ""
  /\ googleLoaded = google
  /\ initMaps = <<>>
  /\ effectDue = TRUE
  /\ renders = 0
  /\ retries = 0

\* GoogleMap at its mount: isLoading starts true, so the first render returns
\* the spinner and mapRef.current is null
MapMounted ==
  /\ isLoading = TRUE
  /\ error = ""
  /\ loadAttempts = 0
  /\ googleMapsApi = FALSE
  /\ mapRefCurrent = RendersContainer(TRUE, "")
  /\ initializeMaps = <<>>
  /\ mapEffectDue = TRUE
  /\ propsChanges = 0

\* no effect of the map loading has run
LoadIdle == DetailedMounted(FALSE) /\ MapMounted /\ lateUpdates = <<>>

DeleteIdle == isDeleting = FALSE /\ deletePending = FALSE /\ deleteLog = <<>>

StoreIdle ==
  businessRows = <<>> /\ gridResultRows = <<>> /\ competitorRows = <<>> /\ serviceLog = <<>>

SearchIdle == searchKey = JStr("key") /\ searchLog = <<>>

TableIdle ==
  /\ competitorList = <<>>
  /\ competitorSearch = <<>>
  /\ compSortKey = "name"
  /\ compSortOrder = "asc"
  /\ filteredCompetitors = <<>>
  /\ tableEvent = [kind |-> "none", key |-> "", text |-> <<>>]

\* nothing but the view is in use
OthersIdle == PhotoIdle /\ LoadIdle /\ DeleteIdle /\ StoreIdle /\ SearchIdle /\ TableIdle

Init ==
  /\ \E rev \in {1, 2, 3}, gr \in GeoInputs \cup RankInputs \cup StoredInputs \cup NegativeInputs :
       Mounted(rev, gr)
  /\ visual = NoVisual
  /\ OthersIdle

\* DetailedGridView: the map-init effect of the mount constructs the first
\* Map and sets mapLoaded, which schedules a render
InitMap ==
  /\ mapInstances = 0
  /\ mapInstances' = 1
  /\ UNCHANGED <<revision, gridResult, markers, draws, drawError, csv, png, competitors,
                 props, mapStatus, mapMarkers, points, visual, otherVars>>

\* DetailedGridView: a render once the map is loaded.  location is a new
\* object at every render, so both effects run: the map-init effect constructs
\* a Map and stores it in mapInstanceRef, then the grid-marker effect draws on
\* that instance
DrawGridMarkers ==
  /\ mapInstances > 0
  /\ draws < MaxDraws
  /\ LET run == GridMarkerEffect(revision, gridResult)
     IN  /\ markers' = run.added
         /\ drawError' = run.threw
  /\ mapInstances' = mapInstances + 1
  /\ draws' = draws + 1
  /\ UNCHANGED <<revision, gridResult, csv, png, competitors, props, mapStatus, mapMarkers,
                 points, visual, otherVars>>

\* DetailedGridView: a click on the PNG button
HandleOpenPNG ==
  /\ png' = PngExport(revision, gridResult)
  /\ UNCHANGED <<revision, gridResult, mapInstances, markers, draws, drawError, csv,
                 competitors, props, mapStatus, mapMarkers, points, visual, otherVars>>

\* HandleCSVDownload with a slip: the rows are taken out of the rank matrix
\* as they are written
HandleCSVDownloadConsuming ==
  /\ csv' = CsvExport(revision, gridResult)
  /\ gridResult' = [gridResult EXCEPT !.gridData.rows = <<>>]
  /\ UNCHANGED <<revision, mapInstances, markers, draws, drawError, png,
                 competitors, props, mapStatus, mapMarkers, points, visual, otherVars>>

\* DetailedGridView: a click on the CSV button
HandleCSVDownload ==
  /\ csv' = CsvExport(revision, gridResult)
  /\ UNCHANGED <<revision, gridResult, mapInstances, markers, draws, drawError, png,
                 competitors, props, mapStatus, mapMarkers, points, visual, otherVars>>

\* GoogleMap: the maps API has loaded and initializeMap runs to its end
InitializeMap ==
  /\ mapStatus = "loading"
  /\ LET run == InitializeMapRun(props)
     IN  /\ mapMarkers' = mapMarkers \o run.added
         /\ points' = run.generated
         /\ mapStatus' = IF run.threw THEN "error" ELSE "ready"
  /\ UNCHANGED <<revision, gridResult, mapInstances, markers, draws, drawError, csv, png,
                 competitors, props, visual, otherVars>>

Next == InitMap \/ DrawGridMarkers \/ HandleCSVDownload \/ InitializeMap

Spec == Init /\ [][Next]_vars

\* ------------------------------------------------------------------------
\* Clicks on ranking markers: the competitors of a grid point
\* ------------------------------------------------------------------------
\* grids of one and of four cells to click on
ClickInputs ==
  {GridResultOf(JNum(FromInt(n)), JNum(FromRat(30, 1)), JNum(c.lat), JNum(c.lng),
                Matrix(Uniform(n, 1)), TRUE) :
     n \in 1..2, c \in Centers}

\* places the search answers with: two near the business locations of the
\* model, one some degrees north, and one without geometry
NearbyPlaces ==
  << [lat |-> JNum(FromRat(3, 4)), lng |-> JNum(FromRat(1, 1))],
     [lat |-> JNum(FromRat(9, 1)), lng |-> JNum(FromRat(0 - 5, 1))],
     [lat |-> JNum(FromRat(17, 4)), lng |-> JNum(FromRat(5, 2))],
     [lat |-> Undefined, lng |-> Undefined] >>

\* a place at the grid point itself
PlaceAt(gridPoint) == [lat |-> JNum(gridPoint.lat), lng |-> JNum(gridPoint.lng)]

\* the answers of the places search for a grid point: none, a few places in
\* two orders, and MaxResults places
Responses(gridPoint) ==
  LET here == PlaceAt(gridPoint)
      few == <<NearbyPlaces[2], here, NearbyPlaces[1], NearbyPlaces[3]>>
  IN  {<<>>,
       few,
       <<NearbyPlaces[3], NearbyPlaces[4], here>>,
       [k \in 1..MaxResults |-> few[(k % 4) + 1]]}

\* DetailedGridView, revisions 1 and 3: a click on the ranking marker p, up to
\* the modal that lists the businesses
ShowCompetitorsForGridPoint ==
  /\ revision \in {1, 3}
  /\ \E p \in 1..Len(markers) :
       LET gridPoint == [lat |-> markers[p].lat, lng |-> markers[p].lng]
       IN  \E places \in Responses(gridPoint) :
             \E results \in {MapResults(gridPoint, places)} :
               competitors' = ShowCompetitorsRun(revision, gridPoint, results)
  /\ UNCHANGED <<revision, gridResult, mapInstances, markers, draws, drawError, csv, png,
                 props, mapStatus, mapMarkers, points, visual, otherVars>>

CompetitorInit ==
  /\ \E rev \in {1, 2, 3}, gr \in ClickInputs : Mounted(rev, gr)
  /\ visual = NoVisual
  /\ OthersIdle

CompetitorNext == InitMap \/ DrawGridMarkers \/ ShowCompetitorsForGridPoint

CompetitorSpec == CompetitorInit /\ [][CompetitorNext]_vars

\* ------------------------------------------------------------------------
\* Drawing and exporting a stored grid result
\* ------------------------------------------------------------------------
ExportInit ==
  /\ \E rev \in {1, 2, 3}, gr \in StoredInputs \cup NegativeInputs : Mounted(rev, gr)
  /\ visual = NoVisual
  /\ OthersIdle

ExportNext == InitMap \/ DrawGridMarkers \/ HandleCSVDownload \/ HandleOpenPNG

ExportSpec == ExportInit /\ [][ExportNext]_vars

\* ------------------------------------------------------------------------
\* GridVisualization: rendering the points of the grid context
\* ------------------------------------------------------------------------
\* a grid result for the states in which DetailedGridView plays no part
NoGridResult ==
  GridResultOf(JNum(FromInt(1)), JNum(FromRat(30, 1)), JNum(Zero), JNum(Zero), NoMatrix, TRUE)

\* the config sizes and the numbers of points the context may hold
VisualInputs ==
  {[size |-> s, count |-> c, rendered |-> FALSE, titles |-> <<>>] :
     s \in 0..MaxSize, c \in 0..(MaxSize * MaxSize)}

VisualInit ==
  /\ Mounted(1, NoGridResult)
  /\ visual \in VisualInputs
  /\ OthersIdle

\* GridVisualization renders one marker per point
RenderGridVisualization ==
  /\ ~visual.rendered
  /\ visual' = [visual EXCEPT !.rendered = TRUE,
                              !.titles = VisualTitles(visual.size, visual.count)]
  /\ UNCHANGED <<revision, gridResult, mapInstances, markers, draws, drawError, csv, png,
                 competitors, props, mapStatus, mapMarkers, points, otherVars>>

VisualNext == RenderGridVisualization

VisualSpec == VisualInit /\ [][VisualNext]_vars

\* ------------------------------------------------------------------------
\* The place-photo route answering requests
\* ------------------------------------------------------------------------
\* the view plays no part
ViewUnused == Mounted(1, NoGridResult) /\ visual = NoVisual

\* the values of the environment variable: not set, empty, set
ApiKeys == {Undefined, JStr(""), JStr("key")}

\* query strings: the reference absent, empty or given, the sizes absent or given
PhotoRequests ==
  {[reference |-> r, maxwidth |-> w, maxheight |-> h] :
     r \in {Null, JStr(""), JStr("ref")}, w \in {Null, JStr("120")}, h \in {Null, JStr("90")}}

\* what the fetch ends with: a rejection, a response that is not OK, or an OK
\* response with or without a content type whose body can or cannot be read
PhotoUpstreams ==
  {[kind |-> "rejected", ok |-> FALSE, contentType |-> Null, body |-> "none"],
   [kind |-> "response", ok |-> FALSE, contentType |-> JStr("text/html"), body |-> "none"]}
  \cup
  {[kind |-> "response", ok |-> TRUE, contentType |-> c, body |-> b] :
     c \in {Null, JStr("image/png")}, b \in {"read", "fails"}}

PhotoInit ==
  /\ ViewUnused
  /\ LoadIdle
  /\ DeleteIdle /\ StoreIdle /\ SearchIdle /\ TableIdle
  /\ photoKey \in ApiKeys
  /\ photoPending = NoRequest
  /\ photoLog = <<>>

\* GET, from the request to its response or to the fetch it awaits
PhotoGET ==
  /\ photoPending = NoRequest
  /\ Len(photoLog) < MaxRequests
  /\ \E req \in PhotoRequests :
       LET begun == PhotoBegin(photoKey, req)
       IN  IF begun.fetch
           THEN /\ photoPending' = [reference |-> req.reference, maxwidth |-> req.maxwidth,
                                    maxheight |-> req.maxheight, url |-> begun.url]
                /\ UNCHANGED photoLog
           ELSE /\ photoLog' = Append(photoLog,
                                      [request |-> req, url |-> NoUrl, upstream |-> NoUpstream,
                                       response |-> begun.response])
                /\ UNCHANGED photoPending
  /\ UNCHANGED <<photoKey, viewVars, loadVars, restVars>>

\* GET, from the settled fetch to the response
PhotoFetchSettles ==
  /\ photoPending # NoRequest
  /\ \E up \in PhotoUpstreams :
       photoLog' = Append(photoLog,
                          [request |-> [reference |-> photoPending.reference,
                                        maxwidth |-> photoPending.maxwidth,
                                        maxheight |-> photoPending.maxheight],
                           url |-> photoPending.url, upstream |-> up,
                           response |-> PhotoFinish(up)])
  /\ photoPending' = NoRequest
  /\ UNCHANGED <<photoKey, viewVars, loadVars, restVars>>

PhotoNext == PhotoGET \/ PhotoFetchSettles

PhotoSpec == PhotoInit /\ [][PhotoNext]_vars

\* ------------------------------------------------------------------------
\* Loading the map in DetailedGridView and in GoogleMap
\* ------------------------------------------------------------------------
\* the state after the updates upd of an initMap call
DetailedUpdated(upd) ==
  /\ mapError' = (IF upd.error # "" THEN upd.error ELSE mapError)
  /\ mapLoaded' = (mapLoaded \/ upd.loaded)

\* DetailedGridView: the map-init effect after a render.  Its dependency
\* location is a new object at every render, so it runs after every render:
\* the cleanup of the last run, then initMap, which awaits loadGoogleMaps()
\* when window.google is not there and else runs to its end.
DetailedMapEffect ==
  /\ effectDue
  /\ IF ~googleLoaded
     THEN /\ initMaps' = Append(Unmount(initMaps), [isMounted |-> TRUE])
          /\ effectDue' = FALSE
          /\ UNCHANGED <<mapLoaded, mapError>>
     ELSE \E constructs \in BOOLEAN :
            LET upd == InitMapBody(TRUE, TRUE, constructs)
            IN  /\ DetailedUpdated(upd)
                /\ initMaps' = Unmount(initMaps)
                /\ effectDue' = (mapError' # mapError \/ mapLoaded' # mapLoaded)
  /\ UNCHANGED <<googleLoaded, renders, retries, mapLoadVars, lateUpdates, viewVars, photoVars,
                 restVars>>

\* loadGoogleMaps() settles for the initMap call k: it resolves, with
\* window.google defined or not, or rejects, and the call runs to its end
LoadGoogleMapsSettles ==
  /\ \E k \in 1..Len(initMaps) :
       \E settled \in {"resolved", "rejected"}, google \in BOOLEAN, constructs \in BOOLEAN :
         LET nowLoaded == googleLoaded \/ (settled = "resolved" /\ google)
             upd == InitMapAfterLoad(initMaps[k].isMounted, settled, nowLoaded, constructs)
         IN  /\ (settled = "rejected" => ~google /\ constructs)
             /\ (~nowLoaded => constructs)
             /\ googleLoaded' = nowLoaded
             /\ DetailedUpdated(upd)
             /\ initMaps' = Settled(initMaps, k)
             /\ effectDue' = (effectDue \/ mapError' # mapError \/ mapLoaded' # mapLoaded)
             /\ lateUpdates' = (IF initMaps[k].isMounted THEN lateUpdates
                                ELSE lateUpdates \o upd.calls)
  /\ UNCHANGED <<renders, retries, mapLoadVars, viewVars, photoVars,
                 restVars>>

\* the button "Retry Loading Map" of DetailedGridView, shown with the error
RetryLoadingMap ==
  /\ mapError # ""
  /\ retries < MaxRetries
  /\ mapError' = ""
  /\ mapLoaded' = FALSE
  /\ effectDue' = TRUE
  /\ retries' = retries + 1
  /\ UNCHANGED <<googleLoaded, initMaps, renders, mapLoadVars, lateUpdates, viewVars, photoVars,
                 restVars>>

\* DetailedGridView renders for another reason (setCompetitors, setIsDeleting)
DetailedRerender ==
  /\ renders < MaxRenders
  /\ renders' = renders + 1
  /\ effectDue' = TRUE
  /\ UNCHANGED <<mapLoaded, mapError, googleLoaded, initMaps, retries, mapLoadVars,
                 lateUpdates, viewVars, photoVars,
                 restVars>>

\* GoogleMap: the init effect after a change of its dependencies: the cleanup
\* of the last run, the return when mapRef.current is null, and else
\* setIsLoading(true), setError(null) and initializeMap up to its await
GoogleMapEffect ==
  /\ mapEffectDue
  /\ mapEffectDue' = FALSE
  /\ IF ~mapRefCurrent
     THEN /\ initializeMaps' = Unmount(initializeMaps)
          /\ UNCHANGED <<isLoading, error, mapRefCurrent>>
     ELSE /\ isLoading' = TRUE
          /\ error' = ""
          /\ mapRefCurrent' = RendersContainer(TRUE, "")
          /\ initializeMaps' = Append(Unmount(initializeMaps), [isMounted |-> TRUE])
  /\ UNCHANGED <<loadAttempts, googleMapsApi, propsChanges, detailedLoadVars, lateUpdates,
                 viewVars, photoVars,
                 restVars>>

\* the parent renders GoogleMap with new props (center is a dependency)
GoogleMapPropsChange ==
  /\ propsChanges < MaxRenders
  /\ propsChanges' = propsChanges + 1
  /\ mapEffectDue' = TRUE
  /\ UNCHANGED <<isLoading, error, loadAttempts, googleMapsApi, mapRefCurrent, initializeMaps,
                 detailedLoadVars, lateUpdates, viewVars, photoVars,
                 restVars>>

\* loadGoogleMapsApi() settles for the initializeMap call k, which runs to
\* its end
LoadGoogleMapsApiSettles ==
  /\ \E k \in 1..Len(initializeMaps) :
       \E settled \in {"resolved", "rejected"}, succeeds \in BOOLEAN :
         LET upd == InitializeMapAfterLoad(initializeMaps[k].isMounted, settled,
                                           mapRefCurrent, succeeds)
         IN  /\ (settled = "rejected" => succeeds)
             /\ googleMapsApi' = (googleMapsApi \/ upd.api)
             /\ error' = (IF upd.error # "" THEN upd.error ELSE error)
             /\ isLoading' = (isLoading /\ ~upd.ended)
             /\ mapRefCurrent' = RendersContainer(isLoading', error')
             /\ initializeMaps' = Settled(initializeMaps, k)
             /\ lateUpdates' = (IF initializeMaps[k].isMounted THEN lateUpdates
                                ELSE lateUpdates \o upd.calls)
  /\ UNCHANGED <<loadAttempts, mapEffectDue, propsChanges, detailedLoadVars, viewVars, photoVars,
                 restVars>>

\* handleRetry of GoogleMap, behind the button shown with the error
HandleRetry ==
  /\ error # ""
  /\ loadAttempts < MaxRetries
  /\ error' = ""
  /\ isLoading' = TRUE
  /\ loadAttempts' = loadAttempts + 1
  /\ mapRefCurrent' = RendersContainer(TRUE, "")
  /\ mapEffectDue' = TRUE
  /\ UNCHANGED <<googleMapsApi, initializeMaps, propsChanges, detailedLoadVars, lateUpdates,
                 viewVars, photoVars,
                 restVars>>

\* the two components at their mount
LoadInit ==
  /\ ViewUnused
  /\ PhotoIdle
  /\ DeleteIdle /\ StoreIdle /\ SearchIdle /\ TableIdle
  /\ \E google \in BOOLEAN : DetailedMounted(google)
  /\ MapMounted
  /\ lateUpdates = <<>>

\* what can happen from the mount on: GoogleMap starts no initializeMap call,
\* so none settles and the retry button is never shown
LoadNext ==
  \/ DetailedMapEffect
  \/ LoadGoogleMapsSettles
  \/ RetryLoadingMap
  \/ DetailedRerender
  \/ GoogleMapEffect
  \/ GoogleMapPropsChange

\* React runs the effects of a render; the loader settles when it settles
LoadSpec ==
  /\ LoadInit
  /\ [][LoadNext]_vars
  /\ WF_vars(DetailedMapEffect)
  /\ WF_vars(GoogleMapEffect)

\* GoogleMap with its container rendered, the state its init effect is
\* written for (it returns at once when mapRef.current is null)
MapAttached ==
  /\ isLoading = FALSE
  /\ error = ""
  /\ loadAttempts = 0
  /\ googleMapsApi = FALSE
  /\ mapRefCurrent = RendersContainer(FALSE, "")
  /\ initializeMaps = <<>>
  /\ mapEffectDue = TRUE
  /\ propsChanges = 0

CleanupInit ==
  /\ ViewUnused
  /\ PhotoIdle
  /\ DeleteIdle /\ StoreIdle /\ SearchIdle /\ TableIdle
  /\ \E google \in BOOLEAN : DetailedMounted(google)
  /\ MapAttached
  /\ lateUpdates = <<>>

\* effects, their cleanups and the loaders settling at any moment
CleanupNext ==
  \/ DetailedMapEffect
  \/ LoadGoogleMapsSettles
  \/ RetryLoadingMap
  \/ DetailedRerender
  \/ GoogleMapEffect
  \/ GoogleMapPropsChange
  \/ LoadGoogleMapsApiSettles
  \/ HandleRetry

CleanupSpec == CleanupInit /\ [][CleanupNext]_vars

\* ------------------------------------------------------------------------
\* The Delete button of the detailed view
\* ------------------------------------------------------------------------
DeleteInit ==
  /\ ViewUnused
  /\ PhotoIdle /\ LoadIdle /\ StoreIdle /\ SearchIdle /\ TableIdle
  /\ DeleteIdle

\* a click on Delete, which is disabled while isDeleting: handleDelete up to
\* its await, or to its end when the confirmation is declined
HandleDelete ==
  /\ ~isDeleting
  /\ Len(deleteLog) < MaxDeletes
  /\ \E confirmed \in BOOLEAN :
       LET begun == HandleDeleteBegin(confirmed)
       IN  /\ isDeleting' = begun.deleting
           /\ deletePending' = begun.awaits
           /\ deleteLog' = Append(deleteLog,
                                  [confirmed |-> confirmed,
                                   outcome |-> IF begun.awaits THEN "pending" ELSE "none",
                                   calls |-> begun.calls])
  /\ UNCHANGED <<viewVars, photoVars, loadVars, storeVars, searchVars, tableVars>>

\* deleteGridResult settles and handleDelete runs to its end
DeleteGridResultSettles ==
  /\ deletePending
  /\ \E outcome \in {"true", "false", "throws"} :
       LET ended == HandleDeleteEnd(outcome)
           k == Len(deleteLog)
       IN  /\ isDeleting' = ended.deleting
           /\ deleteLog' = [deleteLog EXCEPT ![k].outcome = outcome,
                                             ![k].calls = deleteLog[k].calls \o ended.calls]
  /\ deletePending' = FALSE
  /\ UNCHANGED <<viewVars, photoVars, loadVars, storeVars, searchVars, tableVars>>

DeleteNext == HandleDelete \/ DeleteGridResultSettles

DeleteSpec == DeleteInit /\ [][DeleteNext]_vars

\* ------------------------------------------------------------------------
\* Calls of geogrid-service
\* ------------------------------------------------------------------------
\* results to save
SaveInputs == {[name |-> "Cafe", searchTerm |-> t] : t \in {"coffee", "tea"}}

\* ids asked for: of rows that exist or not
Ids == 1..2

\* competitors to save: none, one, and one after which comes one without location
CompetitorInputs ==
  {<<>>, <<[name |-> "Rival", hasLocation |-> TRUE]>>,
   <<[name |-> "Rival", hasLocation |-> TRUE], [name |-> "Other", hasLocation |-> FALSE]>>}

ServiceInit ==
  /\ ViewUnused
  /\ PhotoIdle /\ LoadIdle /\ DeleteIdle /\ SearchIdle /\ TableIdle
  /\ StoreIdle

\* the entry of the log for a call of fn that met the outcomes store and done
Called(fn, store, done) ==
  [fn |-> fn, store |-> store, outcome |-> done.outcome, value |-> done.value]

ServiceFrame == UNCHANGED <<viewVars, photoVars, loadVars, deleteVars, searchVars, tableVars>>

SaveGridResult ==
  /\ Len(serviceLog) < MaxCalls
  /\ \E result \in SaveInputs, first \in StoreOutcomes, second \in StoreOutcomes :
       LET done == saveGridResult(businessRows, gridResultRows, result, first, second)
       IN  /\ businessRows' = done.businesses
           /\ gridResultRows' = done.gridResults
           /\ serviceLog' = Append(serviceLog, Called("saveGridResult", done.store, done))
  /\ UNCHANGED competitorRows
  /\ ServiceFrame

GetGridResults ==
  /\ Len(serviceLog) < MaxCalls
  /\ \E out \in StoreOutcomes :
       serviceLog' = Append(serviceLog,
                            Called("getGridResults", <<out>>,
                                   getGridResults(businessRows, gridResultRows, out)))
  /\ UNCHANGED <<businessRows, gridResultRows, competitorRows>>
  /\ ServiceFrame

GetGridResultById ==
  /\ Len(serviceLog) < MaxCalls
  /\ \E id \in Ids, out \in StoreOutcomes :
       serviceLog' = Append(serviceLog,
                            Called("getGridResultById", <<out>>,
                                   getGridResultById(businessRows, gridResultRows, id, out)))
  /\ UNCHANGED <<businessRows, gridResultRows, competitorRows>>
  /\ ServiceFrame

DeleteGridResult ==
  /\ Len(serviceLog) < MaxCalls
  /\ \E id \in Ids, out \in StoreOutcomes \ {"data"} :
       LET done == deleteGridResult(gridResultRows, id, out)
       IN  /\ gridResultRows' = done.gridResults
           /\ serviceLog' = Append(serviceLog, Called("deleteGridResult", <<out>>, done))
  /\ UNCHANGED <<businessRows, competitorRows>>
  /\ ServiceFrame

SaveCompetitors ==
  /\ Len(serviceLog) < MaxCalls
  /\ \E id \in Ids, list \in CompetitorInputs, out \in StoreOutcomes \ {"data"} :
       LET done == saveCompetitors(competitorRows, id, list, out)
       IN  /\ competitorRows' = done.competitors
           /\ serviceLog' = Append(serviceLog, Called("saveCompetitors", done.store, done))
  /\ UNCHANGED <<businessRows, gridResultRows>>
  /\ ServiceFrame

GetCompetitors ==
  /\ Len(serviceLog) < MaxCalls
  /\ \E id \in Ids, out \in StoreOutcomes :
       serviceLog' = Append(serviceLog,
                            Called("getCompetitors", <<out>>,
                                   getCompetitors(competitorRows, id, out)))
  /\ UNCHANGED <<businessRows, gridResultRows, competitorRows>>
  /\ ServiceFrame

ServiceNext ==
  \/ SaveGridResult
  \/ GetGridResults
  \/ GetGridResultById
  \/ DeleteGridResult
  \/ SaveCompetitors
  \/ GetCompetitors

ServiceSpec == ServiceInit /\ [][ServiceNext]_vars

\* ------------------------------------------------------------------------
\* The places-search handlers answering requests
\* ------------------------------------------------------------------------
SearchLocations ==
  {NoLocation, NullLocation, TextLocation,
   LatLng({"lat", "lng"}, 40, 74), LatLng({"lat", "lng"}, 0, 0), LatLng({"lat"}, 40, 0),
   LatLng({}, 0, 0)}

SearchRadii == {RUndef, RNum(0 - 1), RNum(0), RNum(1000), RNum(50000), RNum(50001), RStr(60000)}

SearchRequests ==
  {[query |-> q, location |-> l, radius |-> r, type |-> t, rankBy |-> b, pageToken |-> p] :
     q \in {Undefined, JStr(""), JStr("pizza")}, l \in SearchLocations, r \in SearchRadii,
     t \in {Undefined, JStr("restaurant")}, b \in {Undefined, JStr("distance")},
     p \in {Undefined, JStr("token")}}

Places == <<[name |-> "Roma", place_id |-> "p1", reference |-> "r1"],
            [name |-> "Napoli", place_id |-> "p2", reference |-> "r2"]>>

\* what the upstream call ends with: it throws, or it answers with a status
\* and, when the status is OK, with places
SearchUpstreams ==
  {[kind |-> "throws", status |-> "", results |-> <<>>]}
  \cup {[kind |-> "response", status |-> "OK", results |-> SubSeq(Places, 1, n)] : n \in 1..2}
  \cup {[kind |-> "response", status |-> st, results |-> <<>>] :
          st \in {"ZERO_RESULTS", "OVER_QUERY_LIMIT", "REQUEST_DENIED", "INVALID_REQUEST",
                  "UNKNOWN_ERROR", "NOT_FOUND"}}

NoUpstreamCall == [kind |-> "none", status |-> "", results |-> <<>>]

SearchInit ==
  /\ ViewUnused
  /\ PhotoIdle /\ LoadIdle /\ DeleteIdle /\ StoreIdle /\ TableIdle
  /\ searchKey \in ApiKeys
  /\ searchLog = <<>>

\* the entry of the log for a request answered by a handler
Answered(handler, req, up, done) ==
  [handler |-> handler, request |-> req, calls |-> done.calls,
   upstream |-> IF done.calls = NoCall THEN NoUpstreamCall ELSE up,
   response |-> done.response]

\* the handlers keep no state from one request to the next: a behaviour
\* answers one request
PlacesSearchPOST ==
  /\ searchLog = <<>>
  /\ \E req \in SearchRequests, up \in SearchUpstreams :
       searchLog' = <<Answered("places-search", req, up, PlacesSearch(searchKey, req, up))>>
  /\ UNCHANGED <<searchKey, viewVars, photoVars, loadVars, deleteVars, storeVars, tableVars>>

PlacesSearchEarlierPOST ==
  /\ searchLog = <<>>
  /\ \E req \in SearchRequests, up \in SearchUpstreams :
       searchLog' = <<Answered("places-search-earlier", req, up,
                               PlacesSearchEarlier(searchKey, req, up))>>
  /\ UNCHANGED <<searchKey, viewVars, photoVars, loadVars, deleteVars, storeVars, tableVars>>

SearchNext == PlacesSearchPOST \/ PlacesSearchEarlierPOST

SearchSpec == SearchInit /\ [][SearchNext]_vars

\* ------------------------------------------------------------------------
\* The competitors table in use
\* ------------------------------------------------------------------------
\* competitors: "Bob", "al", "AB" and "ab"; a rating is a number or null
CompetitorPool ==
  {[name |-> <<66, 111, 98>>, ranking |-> 1, distance |-> 5, rating |-> RNum(4)],
   [name |-> <<97, 108>>, ranking |-> 2, distance |-> 3, rating |-> RNull],
   [name |-> <<65, 66>>, ranking |-> 3, distance |-> 3, rating |-> RNum(5)],
   [name |-> <<97, 98>>, ranking |-> 4, distance |-> 1, rating |-> RNum(0)]}

\* the lists setCompetitors stores: competitors of the pool in any order
CompetitorLists ==
  {list \in UNION {[1..n -> CompetitorPool] : n \in 0..MaxCompetitors} :
     \A i, j \in 1..Len(list) : i # j => list[i] # list[j]}

\* search texts: "", "a", "B", "ab" and "zz"
SearchTexts == {<<>>, <<97>>, <<66>>, <<97, 98>>, <<122, 122>>}

SortKeys == {"name", "ranking", "distance", "rating"}

TableInit ==
  /\ ViewUnused
  /\ PhotoIdle /\ LoadIdle /\ DeleteIdle /\ StoreIdle /\ SearchIdle
  /\ competitorList \in CompetitorLists
  /\ competitorSearch = <<>>
  /\ compSortKey = "name"
  /\ compSortOrder = "asc"
  /\ filteredCompetitors = FilteredCompetitors(competitorList, <<>>, "name", "asc").rows
  /\ tableEvent = [kind |-> "none", key |-> "", text |-> <<>>]

\* the render after an event: filteredCompetitors is computed anew
TableRendered ==
  LET memo == FilteredCompetitors(competitorList, competitorSearch', compSortKey', compSortOrder')
  IN  /\ filteredCompetitors' = memo.rows
      /\ competitorList' = memo.competitors

\* an edit of the search field
SetCompetitorSearch ==
  /\ \E text \in SearchTexts :
       /\ competitorSearch' = text
       /\ tableEvent' = [kind |-> "search", key |-> "", text |-> text]
  /\ UNCHANGED <<compSortKey, compSortOrder>>
  /\ TableRendered
  /\ UNCHANGED <<viewVars, photoVars, loadVars, deleteVars, storeVars, searchVars>>

\* a click on a header; the header row is rendered only with rows to show
ClickHeader ==
  /\ filteredCompetitors # <<>>
  /\ \E key \in SortKeys :
       LET clicked == HeaderClick(compSortKey, compSortOrder, key)
       IN  /\ compSortKey' = clicked.key
           /\ compSortOrder' = clicked.order
           /\ tableEvent' = [kind |-> "click", key |-> key, text |-> <<>>]
  /\ UNCHANGED competitorSearch
  /\ TableRendered
  /\ UNCHANGED <<viewVars, photoVars, loadVars, deleteVars, storeVars, searchVars>>

TableNext == SetCompetitorSearch \/ ClickHeader

TableSpec == TableInit /\ [][TableNext]_vars

\* ------------------------------------------------------------------------
\* Properties
\* ------------------------------------------------------------------------
\* what DetailedGridView works with in the current state
size == LoopCount(ViewGridSize(gridResult))

location == ViewLocation(gridResult)

distance == ViewDistance(gridResult)

latStep == fmul(distance, latKmRatio)

lngStep == fmul(distance, lngKmRatio(location))

\* two coordinates less than a quarter of the grid spacing apart
SameCell(a, b, step) == flt(fmul(FromInt(4), fabs(fsub(a, b))), fabs(step))

\* center + (index - floor(size / 2)) * spacing, the offset form of a coordinate
OffsetForm(c, index, step) == fadd(c, fmul(FromInt(index - GridOffset(size)), step))

\* C1: for every odd grid size the cell at row and column floor(size / 2) has
\* exactly the center coordinate, in the grid of GoogleMap and in the grid of
\* DetailedGridView.
C1_CenterCellExact ==
  /\ \A p \in 1..Len(mapMarkers) :
       (props.gridSize % 2 = 1 /\ mapMarkers[p].row = props.gridSize \div 2
          /\ mapMarkers[p].col = props.gridSize \div 2)
       => (mapMarkers[p].lat = props.center.lat /\ mapMarkers[p].lng = props.center.lng)
  /\ \A p \in 1..Len(markers) :
       (size % 2 = 1 /\ markers[p].row = size \div 2 /\ markers[p].col = size \div 2)
       => (markers[p].lat = location.lat /\ markers[p].lng = location.lng)

PointAt(i, j) == points[i * props.gridSize + j + 1]

\* the coordinate the negated offset of cell (i, j) gives, with perDeg miles
\* to a degree of longitude
Mirrored(i, j, perDeg) ==
  LET offset == GridOffset(props.gridSize)
  IN  [lat |-> fadd(props.center.lat, Neg(LatOffset(i, offset, props.pointDistance))),
       lng |-> fadd(props.center.lng, Neg(LngOffset(j, offset, props.pointDistance, perDeg)))]

\* C3 as stated: the cell at (offset - i, offset - j) has the offset of cell
\* (i, j) with the sign negated in latitude and longitude.
C3_MirrorAtOffsetMinus ==
  LET offset == GridOffset(props.gridSize)
      perDeg == MilesPerDegLng(props.center) IN
  \A i \in 0..(props.gridSize - 1), j \in 0..(props.gridSize - 1) :
    (points # <<>> /\ i <= offset /\ j <= offset)
      => PointAt(offset - i, offset - j) = Mirrored(i, j, perDeg)

\* C3 as amended: the cell at (2 * offset - i, 2 * offset - j), when the grid
\* has it (always, for an odd size), has the offset of cell (i, j) with the
\* sign negated in latitude and longitude.
C3_MirrorAtTwiceOffsetMinus ==
  LET offset == GridOffset(props.gridSize)
      perDeg == MilesPerDegLng(props.center) IN
  \A i \in 0..(props.gridSize - 1), j \in 0..(props.gridSize - 1) :
    (points # <<>> /\ 2 * offset - i < props.gridSize /\ 2 * offset - j < props.gridSize)
      => PointAt(2 * offset - i, 2 * offset - j) = Mirrored(i, j, perDeg)

C3_Witness ==
  /\ Len(points) = 9
  /\ PointAt(0, 2) # PointAt(2, 0)
  /\ PointAt(0, 2) # PointAt(1, 1)

\* the markers that carry a label text and a colour
Labelled == {mapMarkers[p] : p \in 1..Len(mapMarkers)}
              \cup {markers[p] : p \in {q \in 1..Len(markers) : revision = 2}}

\* C4: every label is the decimal string of the rank for ranks 1 to 20 and
\* "20+" for ranks above 20.
C4_LabelOfRank ==
  \A mk \in Labelled :
    mk.ranking.t = "number" /\ mk.ranking.v >= 1
      => mk.text = (IF mk.ranking.v <= 20 THEN ToString(mk.ranking.v) ELSE "20+")

\* of two markers with ranks in 1..20 the better rank has the greater zIndex
Stacked(ms) ==
  \A p, q \in 1..Len(ms) :
    (/\ ms[p].ranking.t = "number" /\ ms[q].ranking.t = "number"
     /\ ms[p].ranking.v \in 1..20 /\ ms[q].ranking.v \in 1..20
     /\ ms[p].ranking.v < ms[q].ranking.v)
      => ms[p].zIndex > ms[q].zIndex

\* C5: on every map, of two ranking markers with ranks r1 < r2 in 1..20 the
\* marker of r1 has the strictly greater zIndex, wherever the cells are.
C5_ZOrderMonotonic == Stacked(mapMarkers) /\ Stacked(markers)

\* C6: every classifier colours a rank above 20 gray, and not with the colour
\* it gives to the ranks 16 to 20.
C6_Above20Gray ==
  \A mk \in Labelled :
    mk.ranking.t = "number" /\ mk.ranking.v > 20
      => /\ mk.color = "#9E9E9E"
         /\ \A other \in Labelled :
              (other.icon = mk.icon /\ other.ranking.t = "number" /\ other.ranking.v \in 16..20)
                => other.color # mk.color

\* the five ranges of the ranks 1..20
Tier(r) ==
  IF r <= 3 THEN 1 ELSE IF r <= 7 THEN 2 ELSE IF r <= 10 THEN 3 ELSE IF r <= 15 THEN 4 ELSE 5

HasMarker(ms, i, j) == \E p \in 1..Len(ms) : ms[p].row = i /\ ms[p].col = j

\* the entry is a rank: defined, not null and not 0
IsRank(entry) == entry.t = "number" /\ entry.v # 0

\* C8: a grid cell gets a ranking marker exactly when the rank matrix is
\* supplied and its entry for the cell is defined, not null and not 0.
C8_MarkerIffRank ==
  /\ draws > 0 =>
       \A i \in 0..(size - 1), j \in 0..(size - 1) :
         HasMarker(markers, i, j) <=> IsRank(Entry(ViewGridData(gridResult), i, j))
  /\ mapStatus # "loading" =>
       \A i \in 0..(props.gridSize - 1), j \in 0..(props.gridSize - 1) :
         HasMarker(mapMarkers, i, j)
           <=> (props.gridData.present /\ IsRank(Entry(props.gridData.rows, i, j)))

\* the number of entries in the rows before row r
RECURSIVE EntriesBefore(_, _)
EntriesBefore(rows, r) ==
  IF r <= 1 THEN 0 ELSE EntriesBefore(rows, r - 1) + Len(rows[r - 1])

\* C9: the CSV has one data row for every entry of the rank matrix, zero
\* ranks included, in row-major order, with Row and Column the indices plus
\* one and Ranking the entry as it is.
C9_CsvRowPerEntry ==
  LET rows == ViewGridData(gridResult) IN
  csv.status = "downloaded" =>
    /\ Len(csv.rows) = EntriesBefore(rows, Len(rows) + 1)
    /\ \A r \in 1..Len(rows) : \A c \in 1..Len(rows[r]) :
         LET line == csv.rows[EntriesBefore(rows, r) + c] IN
         /\ line.row = (r - 1) + 1
         /\ line.col = (c - 1) + 1
         /\ line.ranking = (IF rows[r][c].t = "number" THEN ToString(rows[r][c].v) ELSE "null")

C9_Witness ==
  /\ csv.status = "downloaded"
  /\ \E k \in 1..Len(csv.rows) : csv.rows[k].ranking = "0" /\ csv.rows[k].row = 2
  /\ \E k \in 1..Len(csv.rows) : csv.rows[k].ranking = "2" /\ csv.rows[k].col = 3

\* C10: the (Row, Column) pairs of the CSV are {1..size} x {1..size} in
\* row-major order, size being the grid size the markers are placed with.
C10_CsvDimensions ==
  csv.status = "downloaded" =>
    /\ Len(csv.rows) = size * size
    /\ \A k \in 1..Len(csv.rows) :
         csv.rows[k].row = ((k - 1) \div size) + 1 /\ csv.rows[k].col = ((k - 1) % size) + 1

\* C11: whatever gridSize and distanceKm are stored, the latitude and
\* longitude the CSV writes for a cell are those of the marker drawn on that
\* cell, printed with six decimals.
C11_CsvMatchesMarkers ==
  csv.status = "downloaded" =>
    \A k \in 1..Len(csv.rows), p \in 1..Len(markers) :
      (markers[p].row + 1 = csv.rows[k].row /\ markers[p].col + 1 = csv.rows[k].col)
        => (/\ csv.rows[k].lat = ToFixed6(markers[p].lat)
            /\ csv.rows[k].lng = ToFixed6(markers[p].lng))

\* a stored grid result whose size or spacing is not a positive number, or
\* whose center is not a number
MalformedResult(gr) ==
  \/ ~flt(Zero, ToNumber(gr.gridSize))
  \/ ~flt(Zero, ToNumber(gr.distanceKm))
  \/ IsNaN(ToNumber(gr.lat))
  \/ IsNaN(ToNumber(gr.lng))

\* props of GoogleMap with the same defects
MalformedProps(pr) ==
  \/ pr.gridSize <= 0
  \/ ~flt(Zero, pr.pointDistance)
  \/ IsNaN(pr.center.lat)
  \/ IsNaN(pr.center.lng)

\* C12: grid computation on malformed input ends in an error reported to the
\* caller and produces no grid: no marker, no CSV row, no point; and no
\* coordinate that is produced is NaN.
C12_MalformedRejected ==
  /\ MalformedResult(gridResult) =>
       /\ draws > 0 => (drawError /\ markers = <<>>)
       /\ csv.status # "none" => (csv.status = "alert" /\ csv.rows = <<>>)
  /\ MalformedProps(props) =>
       (mapStatus # "loading" => (mapStatus = "error" /\ points = <<>> /\ mapMarkers = <<>>))
  /\ \A p \in 1..Len(markers) : ~IsNaN(markers[p].lat) /\ ~IsNaN(markers[p].lng)
  /\ \A k \in 1..Len(csv.rows) : csv.rows[k].lat # "NaN" /\ csv.rows[k].lng # "NaN"
  /\ \A k \in 1..Len(points) : ~IsNaN(points[k].lat) /\ ~IsNaN(points[k].lng)

\* the coordinate GoogleMap computes for the cell at row i, column j, with
\* perDeg miles to a degree of longitude
CellPoint(i, j, perDeg) ==
  LET offset == GridOffset(props.gridSize)
  IN  [lat |-> fadd(props.center.lat, LatOffset(i, offset, props.pointDistance)),
       lng |-> fadd(props.center.lng, LngOffset(j, offset, props.pointDistance, perDeg))]

\* C13: the point list GoogleMap hands over has size * size points, with or
\* without rank data; the point at flattened index k is the cell at row
\* floor(k / size), column k mod size; and the rank of a marker is the entry
\* of the rank matrix at the row and column its coordinate was computed from.
C13_PointsRowMajor ==
  LET perDeg == MilesPerDegLng(props.center) IN
  /\ mapStatus = "ready" =>
       /\ Len(points) = props.gridSize * props.gridSize
       /\ \A k \in 0..(Len(points) - 1) :
            points[k + 1] = CellPoint(k \div props.gridSize, k % props.gridSize, perDeg)
  /\ \A p \in 1..Len(mapMarkers) :
       /\ mapMarkers[p].ranking = Entry(props.gridData.rows, mapMarkers[p].row, mapMarkers[p].col)
       /\ [lat |-> mapMarkers[p].lat, lng |-> mapMarkers[p].lng]
            = CellPoint(mapMarkers[p].row, mapMarkers[p].col, perDeg)

C13_Witness ==
  /\ mapStatus = "ready"
  /\ Len(points) = 9
  /\ points[2] # points[4]
  /\ \E p \in 1..Len(mapMarkers) :
       mapMarkers[p].row = 0 /\ mapMarkers[p].col = 2 /\ mapMarkers[p].ranking = RNum(1)

\* C14: the distance computed for a competitor is 0 when the competitor is
\* at the grid point itself, and is the distance computed with the two
\* coordinates exchanged.
C14_HaversineZeroAndSymmetric ==
  \A k \in 1..Len(competitors.list) :
    LET comp == competitors.list[k] IN
    /\ comp.location = competitors.point => comp.distance = Zero
    /\ comp.distance = HaversineKm(comp.location, competitors.point)

C14_Witness ==
  /\ competitors.status = "shown"
  /\ \E k \in 1..Len(competitors.list) : competitors.list[k].location = competitors.point
  /\ \E k \in 1..Len(competitors.list) :
       /\ competitors.list[k].location.lat # competitors.point.lat
       /\ competitors.list[k].location.lng # competitors.point.lng
       /\ flt(FromInt(500), competitors.list[k].distance)

\* C15: the businesses listed for a clicked grid point are at most 20 and in
\* the order of non-decreasing distance from the grid point, whatever the
\* search returned.
C15_SortedTop20 ==
  competitors.status = "shown" =>
    /\ Len(competitors.list) <= 20
    /\ \A k \in 1..(Len(competitors.list) - 1) :
         ~flt(competitors.list[k + 1].distance, competitors.list[k].distance)

\* C16: drawing the markers, exporting the CSV and exporting the PNG leave the
\* rank matrix of gridResult as it was, dimensions and entries.
C16_GridDataUnchanged == [][gridResult'.gridData = gridResult.gridData]_vars

C16_Witness ==
  /\ draws > 0 /\ markers # <<>>
  /\ csv.status = "downloaded" /\ Len(csv.rows) = 9
  /\ png.status = "done" /\ Len(png.cells) = 9
  /\ Len(gridResult.gridData.rows) = 3

\* no entry of the rank matrix is null (a null entry makes the marker loops
\* throw, whatever the grid size)
NoNull(rows) == \A r \in 1..Len(rows) : \A c \in 1..Len(rows[r]) : rows[r][c].t # "null"

\* the marker or point lies on the center coordinate c
OnCenter(pt, c) == pt.lat = c.lat /\ pt.lng = c.lng

\* for an even size the grid is laid out without an error
EvenSizeTolerated ==
  /\ (size % 2 = 0 /\ draws > 0 /\ NoNull(ViewGridData(gridResult))) => ~drawError
  /\ (props.gridSize % 2 = 0 /\ mapStatus # "loading" /\ NoNull(props.gridData.rows))
       => mapStatus = "ready"

C18_PositiveSizeAndSpacing ==
  draws > 0 =>
  /\ flt(Zero, ViewGridSize(gridResult))
  /\ flt(Zero, ViewDistance(gridResult))
  /\ ~flt(Zero, ToNumber(gridResult.gridSize))
       => ViewGridSize(gridResult) = FromInt(DefaultGridSize)
  /\ ~flt(Zero, ToNumber(gridResult.distanceKm))
       => ViewDistance(gridResult) = DefaultDistance
  /\ IsNaN(ToNumber(gridResult.lat)) => location.lat = Zero
  /\ IsNaN(ToNumber(gridResult.lng)) => location.lng = Zero

\* the markers GridVisualization rendered as the center
CenterPoints == {k \in 1..Len(visual.titles) : visual.titles[k] = "Center Point"}

\* C19: in GridVisualization, for every odd size the point rendered as
\* 'Center Point' is the one at the row-major index of the cell at row and
\* column floor(size / 2); for any size at most one point is rendered so.
C19_CenterPointIndex ==
  visual.rendered =>
    /\ LET half == visual.size \div 2
           index == half * visual.size + half
       IN  (visual.size % 2 = 1 /\ index < visual.count) => CenterPoints = {index + 1}
    /\ Cardinality(CenterPoints) <= 1

C19_Witness ==
  /\ visual.rendered
  /\ visual.size = 3 /\ visual.count = 9
  /\ visual.titles[5] = "Center Point" /\ visual.titles[6] = "Grid Point 5"

\* C20: while the view stays mounted with the same gridResult, re-renders
\* construct no further Map, and no grid cell has two ranking markers on the
\* map instance in use.
C20_RerenderIdempotent ==
  /\ mapInstances <= 1
  /\ \A p, q \in 1..Len(markers) :
       (markers[p].row = markers[q].row /\ markers[p].col = markers[q].col) => p = q

\* C21: GET /api/place-photo answers a request without a reference (absent
\* or empty) with 400 and fetches nothing, whether or not the API key is
\* configured; a request with a reference and no configured key with 500,
\* fetching nothing; a fetch that ends with a response that is not OK with a
\* redirect to the placeholder image and no error status; and a fetch or a
\* body read that throws with 500.
C21_PhotoRoute ==
  \A k \in 1..Len(photoLog) :
    LET e == photoLog[k] IN
    /\ (e.request.reference = Null \/ e.request.reference.s = "")
         => e.response.status = 400 /\ ~e.url.sent /\ e.upstream = NoUpstream
    /\ (e.request.reference.s # "" /\ (photoKey = Undefined \/ photoKey.s = ""))
         => e.response.status = 500 /\ ~e.url.sent /\ e.upstream = NoUpstream
    /\ (e.upstream.kind = "response" /\ ~e.upstream.ok)
         => /\ e.response.kind = "redirect"
            /\ e.response.detail = "https://via.placeholder.com/150?text=No+Image"
            /\ e.response.status < 400
    /\ (e.upstream.kind = "rejected" \/ e.upstream.body = "fails")
         => e.response.status = 500

C21_Witness ==
  /\ Len(photoLog) = 2
  /\ photoKey = JStr("key")
  /\ photoLog[1].request.reference = Null /\ photoLog[1].response.status = 400
  /\ photoLog[2].upstream.kind = "response" /\ ~photoLog[2].upstream.ok
  /\ photoLog[2].response.kind = "redirect"

\* C22: GoogleMap, mounted with isLoading true and no error, eventually
\* leaves the loading state.
C22_MapLeavesLoading == <>(~isLoading)

\* C23: in DetailedGridView, once an initMap call has started, the loading
\* state ends: mapLoaded eventually becomes true, whether or not the loading
\* of the Google Maps API settles.
C23_DetailedLoadingEnds == (\E k \in 1..Len(initMaps) : initMaps[k].isMounted) ~> mapLoaded

C25_DeleteProtocol ==
  /\ isDeleting = deletePending
  /\ \A k \in 1..Len(deleteLog) :
       LET e == deleteLog[k]
           IsCallback(c) == c \in {"onDelete", "onClose"}
           IsDelete(c) == c = "deleteGridResult"
       IN  /\ Len(SelectSeq(e.calls, IsDelete)) = (IF e.confirmed THEN 1 ELSE 0)
           /\ SelectSeq(e.calls, IsCallback) =
                (IF e.outcome = "true" THEN <<"onDelete", "onClose">> ELSE <<>>)
           /\ (e.outcome = "pending") = (k = Len(deleteLog) /\ deletePending)
           /\ (e.outcome = "none") = ~e.confirmed

\* C25 witness: three clicks: declined, confirmed and deleted, confirmed and
\* the delete threw
C25_Witness ==
  /\ Len(deleteLog) = 3
  /\ ~isDeleting
  /\ ~deleteLog[1].confirmed
  /\ deleteLog[2].outcome = "true"
  /\ deleteLog[3].outcome = "throws"

\* C26: saveGridResult is all-or-nothing: a call that throws leaves no row
\* of its own in businesses or grid_results; a call that returns has
\* inserted one businesses row and one grid_results row that refers to it,
\* and returns the id of the grid_results row.
C26_SaveAllOrNothing ==
  [][(Len(serviceLog') = Len(serviceLog) + 1 /\ serviceLog'[Len(serviceLog')].fn = "saveGridResult")
       => LET call == serviceLog'[Len(serviceLog')]
          IN  IF call.outcome = "throws"
              THEN businessRows' = businessRows /\ gridResultRows' = gridResultRows
              ELSE /\ Len(businessRows') = Len(businessRows) + 1
                   /\ Len(gridResultRows') = Len(gridResultRows) + 1
                   /\ SubSeq(businessRows', 1, Len(businessRows)) = businessRows
                   /\ SubSeq(gridResultRows', 1, Len(gridResultRows)) = gridResultRows
                   /\ gridResultRows'[Len(gridResultRows')].business_id =
                        businessRows'[Len(businessRows')].id
                   /\ call.value.id = IdToString(gridResultRows'[Len(gridResultRows')].id)]_vars

\* C29: getGridResultById, deleteGridResult, saveCompetitors and
\* getCompetitors always return, and return null, false, false and [] when
\* the store answered with an error or threw; getGridResults and
\* saveGridResult throw whenever the store answered with an error or threw.
C29_ErrorContract ==
  \A k \in 1..Len(serviceLog) :
    LET call == serviceLog[k]
        failed == \E j \in 1..Len(call.store) : call.store[j] \in {"error", "throws"}
    IN  /\ call.fn \in {"getGridResultById", "deleteGridResult", "saveCompetitors", "getCompetitors"}
             => /\ call.outcome = "returns"
                /\ failed => call.value =
                     (CASE call.fn = "getGridResultById" -> NullValue
                        [] call.fn = "getCompetitors" -> ListValue(<<>>)
                        [] OTHER -> BoolValue(FALSE))
        /\ call.fn \in {"getGridResults", "saveGridResult"} /\ failed
             => call.outcome = "throws"

\* C29 witness: a delete whose store call threw, a getGridResults whose
\* select answered with an error, and a getCompetitors whose select threw
C29_Witness ==
  /\ Len(serviceLog) = 3
  /\ serviceLog[1].fn = "deleteGridResult" /\ serviceLog[1].store = <<"throws">>
  /\ serviceLog[2].fn = "getGridResults" /\ serviceLog[2].store = <<"error">>
  /\ serviceLog[3].fn = "getCompetitors" /\ serviceLog[3].store = <<"throws">>

\* C27: in both places-search handlers the answer follows the status of the
\* upstream call: OK gives 200 with the places mapped, ZERO_RESULTS 200
\* with no results, OVER_QUERY_LIMIT 429, REQUEST_DENIED 403,
\* INVALID_REQUEST 400, every other status 500, a call that throws 500;
\* and without an API key the answer is 500 and no upstream call is made.
C27_StatusMapping ==
  \A k \in 1..Len(searchLog) :
    LET e == searchLog[k]
        up == e.upstream
    IN  /\ searchKey \in {Undefined, JStr("")} => e.response.status = 500 /\ e.calls = <<>>
        /\ e.calls # <<>> =>
             CASE up.kind = "throws" -> e.response.status = 500
               [] up.status = "OK" ->
                    /\ e.response.status = 200
                    /\ Len(e.response.results) = Len(up.results)
                    /\ \A j \in 1..Len(up.results) :
                         /\ e.response.results[j].name = up.results[j].name
                         /\ e.response.results[j].place_id = up.results[j].place_id
               [] up.status = "ZERO_RESULTS" ->
                    e.response.status = 200 /\ e.response.results = <<>>
               [] up.status = "OVER_QUERY_LIMIT" -> e.response.status = 429
               [] up.status = "REQUEST_DENIED" -> e.response.status = 403
               [] up.status = "INVALID_REQUEST" -> e.response.status = 400
               [] OTHER -> e.response.status = 500

\* C27 witness: the text search of the later handler answered ZERO_RESULTS
C27_Witness ==
  /\ Len(searchLog) = 1
  /\ searchLog[1].handler = "places-search"
  /\ searchLog[1].calls # <<>>
  /\ searchLog[1].calls[1].api = "textSearch"
  /\ searchLog[1].upstream.status = "ZERO_RESULTS"
  /\ searchLog[1].response.status = 200

\* C28: in the places-search handler the text search is used exactly when
\* query is non-empty and location is absent or radius > 50000; otherwise
\* the nearby search is used, unless location lacks lat or lng, which is
\* answered 400 without an upstream call; a radius sent upstream is the
\* requested one when that is a number in (0, 50000], else 5000 for the
\* nearby search, and 50000 for the text search; and no nearby call carries
\* both a radius and rankby = distance.
C28_SearchChoice ==
  \A k \in 1..Len(searchLog) :
    LET e == searchLog[k]
        req == e.request
        nonEmpty == req.query.t = "string" /\ req.query.s # ""
        absent == req.location.t \in {"undefined", "null"}
        above == req.radius.t \in {"number", "string"} /\ req.radius.v > 50000
        valid == req.radius.t = "number" /\ req.radius.v > 0 /\ req.radius.v <= 50000
        complete == req.location.t = "object" /\ {"lat", "lng"} \subseteq req.location.has
        text == nonEmpty /\ (absent \/ above)
    IN  (e.handler = "places-search" /\ searchKey = JStr("key")) =>
          /\ text => Len(e.calls) = 1 /\ e.calls[1].api = "textSearch"
          /\ ~text /\ complete => Len(e.calls) = 1 /\ e.calls[1].api = "placesNearby"
          /\ ~text /\ ~complete => e.calls = <<>> /\ e.response.status = 400
          /\ \A j \in 1..Len(e.calls) :
               LET params == e.calls[j].params
               IN  /\ params.radius # NoParam =>
                        /\ params.radius.t = "number"
                        /\ params.radius.v > 0 /\ params.radius.v <= 50000
                        /\ params.radius.v =
                             (IF e.calls[j].api = "textSearch" THEN 50000
                              ELSE IF valid THEN req.radius.v ELSE 5000)
                   /\ ~(params.radius # NoParam /\ params.rankby = JStr("distance"))

\* C28 witness: a nearby search whose requested radius 50001 was replaced by 5000
C28_Witness ==
  /\ Len(searchLog) = 1
  /\ searchLog[1].handler = "places-search"
  /\ searchLog[1].request.radius = RNum(50001)
  /\ searchLog[1].calls # <<>>
  /\ searchLog[1].calls[1].api = "placesNearby"
  /\ searchLog[1].calls[1].params.radius = RNum(5000)

\* the displayed rows are the competitors whose name contains the search
\* text without regard to case, ordered by the sort key in the sort order
C30_Displayed ==
  LET lower(c) == IF c >= 65 /\ c <= 90 THEN c + 32 ELSE c
      matches(c) ==
        \E k \in 1..(Len(c.name) - Len(competitorSearch) + 1) :
          \A d \in 1..Len(competitorSearch) :
            lower(c.name[k + d - 1]) = lower(competitorSearch[d])
      value(c) == IF compSortKey = "rating"
                  THEN (IF c.rating = RNull THEN 0 ELSE c.rating.v)
                  ELSE c[compSortKey]
      before(a, b) ==
        IF compSortKey = "name"
        THEN \E k \in 1..Len(b.name) :
               /\ k <= Len(a.name) + 1
               /\ \A d \in 1..(k - 1) : a.name[d] = b.name[d]
               /\ (k = Len(a.name) + 1 \/ a.name[k] < b.name[k])
        ELSE value(a) < value(b)
      rows == filteredCompetitors
  IN  /\ {rows[k] : k \in 1..Len(rows)} =
           {competitorList[k] : k \in {j \in 1..Len(competitorList) : matches(competitorList[j])}}
      /\ Len(rows) = Cardinality({rows[k] : k \in 1..Len(rows)})
      /\ \A i, j \in 1..Len(rows) :
           i < j => IF compSortOrder = "asc" THEN ~before(rows[j], rows[i])
                    ELSE ~before(rows[i], rows[j])

\* C30: a click on the header of the sort key flips the order and keeps
\* the key, a click on another header makes it the key with order asc; at
\* every moment the displayed rows are the competitors matching the search,
\* sorted by the key in the order; and no event changes the competitors
\* state.
C30_CompetitorsTable ==
  /\ C30_Displayed
  /\ [][/\ C30_Displayed'
        /\ competitorList' = competitorList
        /\ tableEvent'.kind = "click" =>
             IF tableEvent'.key = compSortKey
             THEN /\ compSortKey' = compSortKey
                  /\ compSortOrder' # compSortOrder
                  /\ compSortOrder' \in {"asc", "desc"}
             ELSE compSortKey' = tableEvent'.key /\ compSortOrder' = "asc"
        /\ tableEvent'.kind = "search" =>
             /\ competitorSearch' = tableEvent'.text
             /\ compSortKey' = compSortKey
             /\ compSortOrder' = compSortOrder]_vars

\* C30 witness: three competitors stored as "Bob", "ab", "AB"; the search
\* "a" and the names in descending order show "ab" before "AB"
C30_Witness ==
  /\ Len(competitorList) = 3
  /\ competitorList[1].name = <<66, 111, 98>>
  /\ competitorList[2].name = <<97, 98>>
  /\ competitorSearch = <<97>>
  /\ compSortKey = "name"
  /\ compSortOrder = "desc"
  /\ tableEvent.kind = "click"
  /\ Len(filteredCompetitors) = 2
  /\ filteredCompetitors[1].name = <<97, 98>>

====
